---- MODULE Spec2Model ----
(***************************************************************************)
(* A model of the webot meeting coordinator: the notification scheduler    *)
(* and dispatcher (NotificationService), the meeting life cycle            *)
(* (MeetingService, MeetingRepository), the availability store             *)
(* (AvailabilityRepository, SetBusyCommand) and the optimal-time search.   *)
(*                                                                         *)
(* Time is counted in minutes.  The process runs in UTC (the container     *)
(* sets no TZ), so JavaScript's local-time getters and setters act on UTC. *)
(***************************************************************************)
EXTENDS Integers, Sequences, FiniteSets, TLC

----------------------------------------------------------------------------
(* Bounds of the model *)

MaxMeetings == 1
MaxNotifs == 2
MaxTicks == 2
MaxResponses == 2
MaxAvail == 3
MaxStored == 2
MaxSeriesRows == 1
MaxStoredJobs == 3

(* Program constants *)

BatchLimit == 50
TopN == 10
TeamTopN == 5

(* Fixtures: minute 0 is a Monday, 00:00 UTC; the clock starts at 10:00 and  *)
(* each tick is one hour                                                    *)

Day == 24 * 60
StartNow == 10 * 60
TickStep == 1 * 60
ProposeTimes == {13 * 60}
RescheduleTimes == {12 * 60}

Users == {"u1", "u2"}
Proposer == "u1"

(* users table rows: a default-zone user and a user east of UTC *)
users(u) ==
  IF u = "u1"
  THEN [timezone |-> "UTC",
        working_hours_start |-> 9,
        working_hours_end |-> 17,
        notification_preferences |-> << <<"2", "4", "h">>, <<"1", "h">> >>]
  ELSE [timezone |-> "Europe/Helsinki",
        working_hours_start |-> 9,
        working_hours_end |-> 17,
        notification_preferences |-> << <<"1", "h">>, <<"1", "5", "m">> >>]

(* offset of a zone from UTC in minutes (standard time) *)
ZoneOffset(zone) ==
  CASE zone = "UTC" -> 0
    [] zone = "Europe/Helsinki" -> 2 * 60
    [] zone = "America/New_York" -> 0 - 5 * 60
    [] OTHER -> 0

SystemZone == "UTC"

----------------------------------------------------------------------------
VARIABLES
  now,            \* the wall clock, new Date()
  meetings,       \* meetings table: sequence of rows, id = index
  responses,      \* meeting_responses table, in responded_at order
  notifications,  \* notifications table: set of rows
  lastNotifId,    \* AUTOINCREMENT counter of notifications
  sweepPc,        \* per dispatcher sweep: "idle" or "running"
  sweepBatch,     \* per sweep: the rows of its due set not yet handled
  cancelPc,       \* per meeting: "idle" or "cancelling" (cancelMeeting in flight)
  rescheduleReq,  \* per rescheduleNotifications call in flight: where it stands
  attempts,       \* history: deliveries attempted per notification row
  cancelReturned, \* history: meetings for which cancelMeeting has returned
  sweepSeen,      \* history: per sweep, cancelReturned when it took its due set
  lateReminder,   \* history: meetings reminded by a sweep that began after the cancel returned
  failedDelivery, \* history: notification rows for which user.send has thrown
  failedSeen,     \* history: per sweep, failedDelivery when it took its due set
  availability,   \* user_availability table: set of rows
  lastAvailId,    \* AUTOINCREMENT counter of user_availability
  busyReq,        \* per set-busy request: where SetBusyCommand.execute stands
  profiles,       \* users table: per user the columns /set-availability writes
  rateLimiter,    \* the rate limiter's Map: key -> count and resetTime
  rateGranted,    \* history: per key, when its window opened and the calls allowed in it
  query,          \* the last read-only call made on the availability store
  reply           \* what that call returned

dbVars == <<meetings, responses, notifications, lastNotifId>>
procVars == <<sweepPc, sweepBatch, cancelPc, rescheduleReq>>
histVars == <<attempts, cancelReturned, sweepSeen, lateReminder, failedDelivery, failedSeen>>
mainVars == <<now, dbVars, procVars, histVars>>
availVars == <<availability, lastAvailId, busyReq, profiles, rateLimiter, rateGranted>>
queryVars == <<query, reply>>
vars == <<mainVars, availVars, queryVars>>

Sweeps == {1, 2}
Requests == {1, 2}
MeetingIds == 1..Len(meetings)

----------------------------------------------------------------------------
(* Zone names.  A text is a string; toUpperCase, toLowerCase and trim are    *)
(* given by their values on the texts that occur: a text that is not listed  *)
(* is its own image.  The empty text also stands for null and undefined.     *)

COMMON_TIMEZONES ==
  ("UTC" :> "UTC") @@ ("GMT" :> "UTC") @@ ("EST" :> "America/New_York")
  @@ ("EDT" :> "America/New_York") @@ ("CST" :> "America/Chicago")
  @@ ("CDT" :> "America/Chicago") @@ ("MST" :> "America/Denver")
  @@ ("MDT" :> "America/Denver") @@ ("PST" :> "America/Los_Angeles")
  @@ ("PDT" :> "America/Los_Angeles") @@ ("CET" :> "Europe/Paris")
  @@ ("CEST" :> "Europe/Paris") @@ ("JST" :> "Asia/Tokyo")
  @@ ("AEST" :> "Australia/Sydney") @@ ("AEDT" :> "Australia/Sydney")

TIMEZONE_ALIASES ==
  ("helsinki" :> "Europe/Helsinki") @@ ("berlin" :> "Europe/Berlin")
  @@ ("london" :> "Europe/London") @@ ("paris" :> "Europe/Paris")
  @@ ("tokyo" :> "Asia/Tokyo") @@ ("sydney" :> "Australia/Sydney")
  @@ ("new york" :> "America/New_York")
  @@ ("los angeles" :> "America/Los_Angeles")
  @@ ("chicago" :> "America/Chicago") @@ ("denver" :> "America/Denver")

(* the properties every object literal inherits that a key in one case can  *)
(* name, each with the text its value gives under toString()                *)
ObjectPrototype ==
  ("constructor" :> "function Object() { [native code] }")
  @@ ("__proto__" :> "[object Object]")

(* the zone ids Intl.DateTimeFormat accepts, whatever their case *)
IanaZones ==
  {"America/Chicago", "America/Denver", "America/Los_Angeles",
   "America/New_York", "Asia/Kolkata", "Asia/Tokyo", "Australia/Sydney",
   "Europe/Berlin", "Europe/Helsinki", "Europe/London", "Europe/Paris",
   "UTC"}

UpperCased ==
  ("America/Chicago" :> "AMERICA/CHICAGO")
  @@ ("America/Denver" :> "AMERICA/DENVER")
  @@ ("America/Los_Angeles" :> "AMERICA/LOS_ANGELES")
  @@ ("America/New_York" :> "AMERICA/NEW_YORK")
  @@ ("Asia/Kolkata" :> "ASIA/KOLKATA") @@ ("Asia/Tokyo" :> "ASIA/TOKYO")
  @@ ("Australia/Sydney" :> "AUSTRALIA/SYDNEY") @@ ("Cet" :> "CET")
  @@ ("Constructor" :> "CONSTRUCTOR") @@ ("Europe/Berlin" :> "EUROPE/BERLIN")
  @@ ("Europe/Helsinki" :> "EUROPE/HELSINKI")
  @@ ("Europe/London" :> "EUROPE/LONDON")
  @@ ("Europe/Paris" :> "EUROPE/PARIS") @@ ("Helsinki" :> "HELSINKI")
  @@ ("Invalid/Timezone" :> "INVALID/TIMEZONE")
  @@ ("Mars/Olympus" :> "MARS/OLYMPUS")
  @@ ("[object Object]" :> "[OBJECT OBJECT]") @@ ("__proto__" :> "__PROTO__")
  @@ ("berlin" :> "BERLIN") @@ ("chicago" :> "CHICAGO")
  @@ ("constructor" :> "CONSTRUCTOR") @@ ("denver" :> "DENVER")
  @@ ("est" :> "EST") @@ ("europe/helsinki" :> "EUROPE/HELSINKI")
  @@ ("function Object() { [native code] }" :> "FUNCTION OBJECT() { [NATIVE CODE] }")
  @@ ("helsinki" :> "HELSINKI") @@ ("london" :> "LONDON")
  @@ ("los angeles" :> "LOS ANGELES") @@ ("new york" :> "NEW YORK")
  @@ ("paris" :> "PARIS") @@ ("sydney" :> "SYDNEY") @@ ("tokyo" :> "TOKYO")

LowerCased ==
  ("AEDT" :> "aedt") @@ ("AEST" :> "aest")
  @@ ("ASIA/TOKYO" :> "asia/tokyo")
  @@ ("America/Chicago" :> "america/chicago")
  @@ ("America/Denver" :> "america/denver")
  @@ ("America/Los_Angeles" :> "america/los_angeles")
  @@ ("America/New_York" :> "america/new_york")
  @@ ("Asia/Kolkata" :> "asia/kolkata") @@ ("Asia/Tokyo" :> "asia/tokyo")
  @@ ("Australia/Sydney" :> "australia/sydney") @@ ("CDT" :> "cdt")
  @@ ("CEST" :> "cest") @@ ("CET" :> "cet") @@ ("CST" :> "cst")
  @@ ("Cet" :> "cet") @@ ("Constructor" :> "constructor") @@ ("EDT" :> "edt")
  @@ ("EST" :> "est") @@ ("Europe/Berlin" :> "europe/berlin")
  @@ ("Europe/Helsinki" :> "europe/helsinki")
  @@ ("Europe/London" :> "europe/london")
  @@ ("Europe/Paris" :> "europe/paris") @@ ("GMT" :> "gmt")
  @@ ("Helsinki" :> "helsinki") @@ ("Invalid/Timezone" :> "invalid/timezone")
  @@ ("JST" :> "jst") @@ ("MDT" :> "mdt") @@ ("MST" :> "mst")
  @@ ("Mars/Olympus" :> "mars/olympus") @@ ("NEW YORK" :> "new york")
  @@ ("PDT" :> "pdt") @@ ("PST" :> "pst") @@ ("UTC" :> "utc")
  @@ ("[object Object]" :> "[object object]")
  @@ ("function Object() { [native code] }" :> "function object() { [native code] }")

Trimmed ==
  ("   " :> "") @@ (" Europe/Berlin " :> "Europe/Berlin")
  @@ (" JST " :> "JST") @@ (" tokyo " :> "tokyo")

toUpperCase(s) == IF s \in DOMAIN UpperCased THEN UpperCased[s] ELSE s

toLowerCase(s) == IF s \in DOMAIN LowerCased THEN LowerCased[s] ELSE s

trimString(s) == IF s \in DOMAIN Trimmed THEN Trimmed[s] ELSE s

(* object[key]: an own property, else an inherited one, else undefined *)
property(object, key) ==
  IF key \in DOMAIN object THEN [found |-> TRUE, v |-> object[key]]
  ELSE IF key \in DOMAIN ObjectPrototype THEN [found |-> TRUE, v |-> ObjectPrototype[key]]
  ELSE [found |-> FALSE, v |-> ""]

(* new Intl.DateTimeFormat(undefined, { timeZone: tz }) does not throw *)
IsValidTimeZoneName(tz) == toLowerCase(tz) \in {toLowerCase(z) : z \in IanaZones}

(* threw: 'Invalid timezone' *)
normalizeTimezone(timezone) ==
  IF timezone = "" THEN [threw |-> FALSE, v |-> "UTC"]
  ELSE LET tz == trimString(timezone)
           common == property(COMMON_TIMEZONES, toUpperCase(tz))
           alias == property(TIMEZONE_ALIASES, toLowerCase(tz))
       IN IF common.found THEN [threw |-> FALSE, v |-> common.v]
          ELSE IF alias.found THEN [threw |-> FALSE, v |-> alias.v]
          ELSE IF IsValidTimeZoneName(tz) THEN [threw |-> FALSE, v |-> tz]
          ELSE [threw |-> TRUE, v |-> ""]

validateTimezone(timezone) ==
  LET normalized == normalizeTimezone(timezone)
  IN [isValid |-> ~normalized.threw, normalized |-> normalized.v]

----------------------------------------------------------------------------
(* TimezoneUtils *)

(* the time value of an Invalid Date *)
InvalidDate == 0 - 1

(* 'Timezone conversion failed' *)
convertToUserTimezoneThrows(utcTime, userTimezone) ==
  normalizeTimezone(userTimezone).threw \/ utcTime = InvalidDate

convertToUserTimezone(utcTime, userTimezone) ==
  utcTime + ZoneOffset(normalizeTimezone(userTimezone).v) - ZoneOffset(SystemZone)

----------------------------------------------------------------------------
(* NotificationService: scheduling *)

IsDigit(c) == c \in {"0", "1", "2", "3", "4", "5", "6", "7", "8", "9"}

DigitVal(c) ==
  CASE c = "0" -> 0 [] c = "1" -> 1 [] c = "2" -> 2 [] c = "3" -> 3
    [] c = "4" -> 4 [] c = "5" -> 5 [] c = "6" -> 6 [] c = "7" -> 7
    [] c = "8" -> 8 [] c = "9" -> 9

RECURSIVE LeadingDigits(_, _)
LeadingDigits(s, acc) ==
  IF s = <<>> \/ ~IsDigit(Head(s)) THEN acc
  ELSE LeadingDigits(Tail(s), 10 * acc + DigitVal(Head(s)))

(* JavaScript parseInt: the leading digits, NaN when there are none *)
parseInt(s) ==
  IF s # <<>> /\ Head(s) = "-"
  THEN IF Len(s) > 1 /\ IsDigit(s[2])
       THEN [nan |-> FALSE, v |-> 0 - LeadingDigits(Tail(s), 0)]
       ELSE [nan |-> TRUE, v |-> 0]
  ELSE IF s # <<>> /\ IsDigit(Head(s))
       THEN [nan |-> FALSE, v |-> LeadingDigits(s, 0)]
       ELSE [nan |-> TRUE, v |-> 0]

(* a Date: valid with its instant, or Invalid Date *)
calculateNotificationTime(meetingTime, reminderTime) ==
  LET timeUnit == reminderTime[Len(reminderTime)]
      timeValue == parseInt(SubSeq(reminderTime, 1, Len(reminderTime) - 1))
      minus(k) == IF timeValue.nan THEN [valid |-> FALSE, t |-> 0]
                  ELSE [valid |-> TRUE, t |-> meetingTime - k * timeValue.v]
  IN CASE timeUnit = "h" -> minus(60)
       [] timeUnit = "m" -> minus(1)
       [] timeUnit = "d" -> minus(24 * 60)
       [] OTHER -> [valid |-> TRUE, t |-> meetingTime]

createNotificationRecord(db, meetingId, userId, notificationTime, notificationType) ==
  [rows |-> db.rows \cup {[id |-> db.last + 1,
                           meeting_id |-> meetingId,
                           user_id |-> userId,
                           notification_time |-> notificationTime,
                           notification_type |-> notificationType,
                           status |-> "pending"]},
   last |-> db.last + 1]

RECURSIVE scheduleReminders(_, _, _, _, _, _)
scheduleReminders(db, meetingId, userId, userMeetingTime, reminderTimes, clock) ==
  IF reminderTimes = <<>> THEN db
  ELSE LET reminderTime == Head(reminderTimes)
           notificationTime == calculateNotificationTime(userMeetingTime, reminderTime)
           db2 == IF notificationTime.valid /\ notificationTime.t > clock
                  THEN createNotificationRecord(db, meetingId, userId,
                                                notificationTime.t, reminderTime)
                  ELSE db
       IN scheduleReminders(db2, meetingId, userId, userMeetingTime,
                            Tail(reminderTimes), clock)

scheduleUserNotifications(db, meetingId, proposed_datetime, userId, clock) ==
  LET user == users(userId)
      userMeetingTime == convertToUserTimezone(proposed_datetime, user.timezone)
  IN scheduleReminders(db, meetingId, userId, userMeetingTime,
                       user.notification_preferences, clock)

(* MeetingRepository.getParticipants: the responders in responded_at order *)
getParticipants(resp, meetingId) ==
  SelectSeq(resp, LAMBDA r : r.meeting_id = meetingId)

RECURSIVE scheduleParticipants(_, _, _, _, _)
scheduleParticipants(db, meetingId, proposed_datetime, interestedUsers, clock) ==
  IF interestedUsers = <<>> THEN db
  ELSE scheduleParticipants(
         scheduleUserNotifications(db, meetingId, proposed_datetime,
                                   Head(interestedUsers).user_id, clock),
         meetingId, proposed_datetime, Tail(interestedUsers), clock)

scheduleNotifications(db, resp, meetingId, proposed_datetime, clock) ==
  LET interestedUsers ==
        SelectSeq(getParticipants(resp, meetingId),
                  LAMBDA p : p.response = "available" \/ p.response = "maybe")
  IN scheduleParticipants(db, meetingId, proposed_datetime, interestedUsers, clock)

(* DELETE FROM notifications WHERE meeting_id = ? AND status = 'pending' *)
deletePending(rows, meetingId) ==
  {n \in rows : ~(n.meeting_id = meetingId /\ n.status = "pending")}

(* rescheduleNotifications after its DELETE: findById, and if the meeting is *)
(* there scheduleNotifications for the new time                              *)
scheduleIfFound(db, resp, mtgs, meetingId, newDateTime, clock) ==
  IF meetingId \in DOMAIN mtgs
  THEN scheduleNotifications(db, resp, meetingId, newDateTime, clock)
  ELSE db

(* DELETE the pending rows of the meeting, then schedule for the new time *)
rescheduleNotifications(db, resp, mtgs, meetingId, newDateTime, clock) ==
  scheduleIfFound([rows |-> deletePending(db.rows, meetingId), last |-> db.last],
                  resp, mtgs, meetingId, newDateTime, clock)

(* cancelNotifications without the condition on the status *)
cancelNotificationsAnyStatus(rows, meetingId) ==
  {IF n.meeting_id = meetingId
   THEN [n EXCEPT !.status = "cancelled"] ELSE n : n \in rows}

(* UPDATE ... SET status = 'cancelled' WHERE meeting_id = ? AND status = 'pending' *)
cancelNotifications(rows, meetingId) ==
  {IF n.meeting_id = meetingId /\ n.status = "pending"
   THEN [n EXCEPT !.status = "cancelled"] ELSE n : n \in rows}

(* UPDATE notifications SET status = ? WHERE id = ? *)
markNotificationSent(rows, notificationId, status) ==
  {IF n.id = notificationId THEN [n EXCEPT !.status = status] ELSE n : n \in rows}

----------------------------------------------------------------------------
(* NotificationService: the dispatcher *)

RECURSIVE OrderByTime(_)
OrderByTime(rows) ==
  IF rows = {} THEN <<>>
  ELSE LET first == CHOOSE n \in rows :
                      \A o \in rows :
                        \/ n.notification_time < o.notification_time
                        \/ (n.notification_time = o.notification_time /\ n.id <= o.id)
       IN <<first>> \o OrderByTime(rows \ {first})

(* SELECT n.*, m.*, u.username, u.display_name, u.timezone ... : the driver   *)
(* builds each row as an object keyed by column name, so of two columns with  *)
(* the same name the later one stays: id is m.id and status is m.status.      *)
(* nid keeps the notifications row the result row came from (history only).   *)
(* Of the other columns only those sendNotification's writes depend on are    *)
(* kept.                                                                      *)
JoinedRow(n, mtgs) ==
  [id |-> mtgs[n.meeting_id].id,
   nid |-> n.id,
   meeting_id |-> n.meeting_id,
   user_id |-> n.user_id]

(* the due set without the condition on the fire time *)
pendingNotificationsOfAnyTime(rows, mtgs, clock) ==
  LET due == OrderByTime({n \in rows : n.status = "pending"})
      taken == SubSeq(due, 1, IF Len(due) < BatchLimit THEN Len(due) ELSE BatchLimit)
  IN [i \in 1..Len(taken) |-> JoinedRow(taken[i], mtgs)]

pendingNotifications(rows, mtgs, clock) ==
  LET due == OrderByTime({n \in rows : n.status = "pending" /\ n.notification_time <= clock})
      taken == SubSeq(due, 1, IF Len(due) < BatchLimit THEN Len(due) ELSE BatchLimit)
  IN [i \in 1..Len(taken) |-> JoinedRow(taken[i], mtgs)]

----------------------------------------------------------------------------
(* MeetingRepository *)

AllowedMeetingFields ==
  {"title", "description", "proposed_datetime", "timezone",
   "duration_minutes", "status", "max_participants"}

(* UPDATE meetings SET <the allowed keys of updateData> WHERE id = ? *)
MeetingRepositoryUpdate(mtgs, id, updateData) ==
  [mtgs EXCEPT ![id] =
     [f \in DOMAIN mtgs[id] |->
        IF f \in DOMAIN updateData /\ f \in AllowedMeetingFields
        THEN updateData[f] ELSE mtgs[id][f]]]

updateStatus(mtgs, id, status) ==
  MeetingRepositoryUpdate(mtgs, id, [status |-> status])

(* getResponseSummary with the 'maybe' responses counted as available *)
availableCountWithMaybe(resp, meetingId) ==
  Len(SelectSeq(resp, LAMBDA r : /\ r.meeting_id = meetingId
                                 /\ r.response \in {"available", "maybe"}))

(* getResponseSummary(meetingId).available.count *)
availableCount(resp, meetingId) ==
  Len(SelectSeq(resp, LAMBDA r : r.meeting_id = meetingId /\ r.response = "available"))

----------------------------------------------------------------------------
(* AvailabilityRepository *)

(* INSERT INTO user_availability: the columns the queries read *)
create(db, availabilityData) ==
  [rows |-> db.rows \cup {[id |-> db.last + 1,
                           user_id |-> availabilityData.user_id,
                           start_datetime |-> availabilityData.start_datetime,
                           end_datetime |-> availabilityData.end_datetime,
                           availability_type |-> availabilityData.availability_type]},
   last |-> db.last + 1]

setBusyPeriod(db, userId, startDateTime, endDateTime) ==
  create(db, [user_id |-> userId,
              start_datetime |-> startDateTime,
              end_datetime |-> endDateTime,
              availability_type |-> "busy"])

RECURSIVE OrderByStart(_)
OrderByStart(rows) ==
  IF rows = {} THEN <<>>
  ELSE LET first == CHOOSE ua \in rows :
                      \A o \in rows :
                        \/ ua.start_datetime < o.start_datetime
                        \/ (ua.start_datetime = o.start_datetime /\ ua.id <= o.id)
       IN <<first>> \o OrderByStart(rows \ {first})

(* findConflicts with a closed end in its first clause: a stored interval   *)
(* that ends where the candidate starts would be reported                    *)
findConflictsClosedEnd(rows, userId, startDateTime, endDateTime, excludeId) ==
  OrderByStart(
    {ua \in rows :
       /\ ua.user_id = userId
       /\ ua.availability_type = "busy"
       /\ \/ (ua.start_datetime <= startDateTime /\ ua.end_datetime >= startDateTime)
          \/ (ua.start_datetime < endDateTime /\ ua.end_datetime >= endDateTime)
          \/ (ua.start_datetime >= startDateTime /\ ua.end_datetime <= endDateTime)
       /\ excludeId # 0 => ua.id # excludeId})

(* excludeId 0 stands for null: no id is excluded *)
findConflicts(rows, userId, startDateTime, endDateTime, excludeId) ==
  OrderByStart(
    {ua \in rows :
       /\ ua.user_id = userId
       /\ ua.availability_type = "busy"
       /\ \/ (ua.start_datetime <= startDateTime /\ ua.end_datetime > startDateTime)
          \/ (ua.start_datetime < endDateTime /\ ua.end_datetime >= endDateTime)
          \/ (ua.start_datetime >= startDateTime /\ ua.end_datetime <= endDateTime)
       /\ excludeId # 0 => ua.id # excludeId})

Range(seq) == {seq[i] : i \in 1..Len(seq)}

getTeamAvailability(rows, userIds, startDate, endDate) ==
  {ua \in rows :
     /\ ua.user_id \in Range(userIds)
     /\ ua.start_datetime <= endDate
     /\ ua.end_datetime >= startDate}

(* workingHoursOnly is accepted and not read *)
findOptimalMeetingTimes(rows, userIds, startDate, endDate, workingHoursOnly) ==
  LET teamAvailability == getTeamAvailability(rows, userIds, startDate, endDate)
  IN [busyPeriods |->
        [u \in Range(userIds) |->
           {[start |-> period.start_datetime, end |-> period.end_datetime] :
              period \in {p \in teamAvailability :
                            p.availability_type = "busy" /\ p.user_id = u}}],
      userTimezones |-> [u \in Range(userIds) |-> users(u).timezone],
      workingHours |->
        [u \in Range(userIds) |-> [start |-> users(u).working_hours_start,
                                   end |-> users(u).working_hours_end]]]

----------------------------------------------------------------------------
(* Date arithmetic in the process's zone, and TimezoneUtils.isWithinWorkingHours *)

(* 0 is Sunday *)
getDay(t) == ((t \div Day) + 1) % 7

getHours(t) == (t % Day) \div 60

(* setHours(hour, 0, 0, 0) *)
setHours(t, hour) == (t \div Day) * Day + hour * 60

(* isWithinWorkingHours with the end hour counted as inside *)
isWithinWorkingHoursClosedEnd(dateTime, timezone, workingHours) ==
  IF convertToUserTimezoneThrows(dateTime, timezone) THEN FALSE
  ELSE LET localTime == convertToUserTimezone(dateTime, timezone)
           hour == getHours(localTime)
       IN hour >= workingHours.start /\ hour <= workingHours.end

(* the catch block answers false *)
isWithinWorkingHours(dateTime, timezone, workingHours) ==
  IF convertToUserTimezoneThrows(dateTime, timezone) THEN FALSE
  ELSE LET localTime == convertToUserTimezone(dateTime, timezone)
           hour == getHours(localTime)
       IN hour >= workingHours.start /\ hour < workingHours.end

----------------------------------------------------------------------------
(* MeetingService.findOptimalMeetingTime *)

(* the users counted at one candidate: in working hours and without conflict *)
availableUsers(availabilityData, userIds, meetingTime, endTime) ==
  Cardinality(
    {i \in 1..Len(userIds) :
       LET userId == userIds[i]
           userBusyPeriods == availabilityData.busyPeriods[userId]
           isInWorkingHours == isWithinWorkingHours(meetingTime,
                                                    availabilityData.userTimezones[userId],
                                                    availabilityData.workingHours[userId])
           hasConflict == \E period \in userBusyPeriods :
                            meetingTime < period.end /\ endTime > period.start
       IN isInWorkingHours /\ ~hasConflict})

(* the hours 9 to 17 of the day of current *)
daySuggestions(availabilityData, userIds, duration, current) ==
  LET slot(hour) ==
        LET meetingTime == setHours(current, hour)
            endTime == meetingTime + duration
            count == availableUsers(availabilityData, userIds, meetingTime, endTime)
        IN [time |-> meetingTime,
            availableUsers |-> count,
            totalUsers |-> Len(userIds),
            score |-> [num |-> count, den |-> Len(userIds)]]
  IN SelectSeq([i \in 1..9 |-> slot(8 + i)], LAMBDA s : s.availableUsers > 0)

RECURSIVE collectSuggestions(_, _, _, _, _)
collectSuggestions(availabilityData, userIds, duration, current, endDate) ==
  IF ~(current < endDate) THEN <<>>
  ELSE (IF getDay(current) >= 1 /\ getDay(current) <= 5
        THEN daySuggestions(availabilityData, userIds, duration, current)
        ELSE <<>>)
       \o collectSuggestions(availabilityData, userIds, duration, current + Day, endDate)

(* the comparator is negative: a sorts before b *)
SortsBefore(a, b) ==
  \/ a.score.num * b.score.den > b.score.num * a.score.den
  \/ /\ a.score.num * b.score.den = b.score.num * a.score.den
     /\ a.availableUsers > b.availableUsers

(* an unstable sort: x goes ahead of everything that does not beat it *)
InsertSortedAheadOfTies(sorted, x) ==
  LET ahead == {i \in 1..Len(sorted) : ~SortsBefore(sorted[i], x)}
      k == IF ahead = {} THEN Len(sorted) + 1
           ELSE CHOOSE i \in ahead : \A j \in ahead : i <= j
  IN SubSeq(sorted, 1, k - 1) \o <<x>> \o SubSeq(sorted, k, Len(sorted))

(* Array.prototype.sort is stable: x goes behind everything it does not beat *)
InsertSorted(sorted, x) ==
  LET ahead == {i \in 1..Len(sorted) : SortsBefore(x, sorted[i])}
      k == IF ahead = {} THEN Len(sorted) + 1
           ELSE CHOOSE i \in ahead : \A j \in ahead : i <= j
  IN SubSeq(sorted, 1, k - 1) \o <<x>> \o SubSeq(sorted, k, Len(sorted))

RECURSIVE sortSuggestions(_, _)
sortSuggestions(sorted, rest) ==
  IF rest = <<>> THEN sorted
  ELSE sortSuggestions(InsertSorted(sorted, Head(rest)), Tail(rest))

(* workingHoursOnly is preferences.workingHoursOnly *)
findOptimalMeetingTime(rows, userIds, duration, startDate, endDate, workingHoursOnly) ==
  LET availabilityData == findOptimalMeetingTimes(rows, userIds, startDate, endDate,
                                                  workingHoursOnly # FALSE)
      suggestions == collectSuggestions(availabilityData, userIds, duration,
                                        startDate, endDate)
      ranked == sortSuggestions(<<>>, suggestions)
  IN SubSeq(ranked, 1, IF Len(ranked) < TopN THEN Len(ranked) ELSE TopN)

----------------------------------------------------------------------------
(* TeamAvailabilityCommand.suggestOptimalMeetingTimes: the quick suggestions *)
(* of the team view, 60 minutes long, one getTeamAvailability per candidate  *)

teamDaySuggestions(rows, userIds, current) ==
  LET duration == 60
      slot(hour) ==
        LET meetingTime == setHours(current, hour)
            endTime == meetingTime + duration
            conflicts == getTeamAvailability(rows, userIds, meetingTime, endTime)
            busyUserIds == {c.user_id : c \in {x \in conflicts : x.availability_type = "busy"}}
            count == Len(userIds) - Cardinality(busyUserIds)
        IN [datetime |-> meetingTime,
            available_users |-> count,
            total_users |-> Len(userIds),
            score |-> [num |-> count, den |-> Len(userIds)]]
  IN SelectSeq([i \in 1..9 |-> slot(8 + i)], LAMBDA s : s.available_users > 0)

RECURSIVE collectTeamSuggestions(_, _, _, _)
collectTeamSuggestions(rows, userIds, current, endDate) ==
  IF ~(current < endDate) THEN <<>>
  ELSE (IF getDay(current) >= 1 /\ getDay(current) <= 5
        THEN teamDaySuggestions(rows, userIds, current)
        ELSE <<>>)
       \o collectTeamSuggestions(rows, userIds, current + Day, endDate)

(* the stable sort on score, then available_users: all entries have the same *)
(* total_users, so the entries of each count stay together in the order they *)
(* were pushed, the larger counts first                                      *)
suggestOptimalMeetingTimes(rows, userIds, startDate, endDate) ==
  LET suggestions == collectTeamSuggestions(rows, userIds, startDate, endDate)
      ofCount(k) == SelectSeq(suggestions, LAMBDA x : x.available_users = k)
      downFrom[k \in 0..Len(userIds)] ==
        IF k = 0 THEN ofCount(0) ELSE ofCount(k) \o downFrom[k - 1]
      ranked == downFrom[Len(userIds)]
  IN SubSeq(ranked, 1, IF Len(ranked) < TeamTopN THEN Len(ranked) ELSE TeamTopN)

----------------------------------------------------------------------------
(* Calendar dates.  Minute 0 is 2024-01-01T00:00Z; months count from 0 as in *)
(* JavaScript.  The setters normalise an out-of-range field by carrying it   *)
(* into the next larger one, as Date.prototype.setDate and setMonth do.      *)

EpochYear == 2024

isLeapYear(y) == (y % 4 = 0 /\ y % 100 # 0) \/ y % 400 = 0

daysInYear(y) == IF isLeapYear(y) THEN 366 ELSE 365

daysInMonth(y, m) ==
  CASE m \in {0, 2, 4, 6, 7, 9, 11} -> 31
    [] m \in {3, 5, 8, 10} -> 30
    [] m = 1 -> IF isLeapYear(y) THEN 29 ELSE 28

RECURSIVE daysBeforeYear(_)
daysBeforeYear(y) ==
  IF y <= EpochYear THEN 0 ELSE daysBeforeYear(y - 1) + daysInYear(y - 1)

RECURSIVE daysBeforeMonth(_, _)
daysBeforeMonth(y, m) ==
  IF m = 0 THEN 0 ELSE daysBeforeMonth(y, m - 1) + daysInMonth(y, m - 1)

RECURSIVE yearOfDay(_, _)
yearOfDay(n, y) ==
  IF n < daysInYear(y) THEN [year |-> y, rest |-> n]
  ELSE yearOfDay(n - daysInYear(y), y + 1)

RECURSIVE monthOfDay(_, _, _)
monthOfDay(n, y, m) ==
  IF n < daysInMonth(y, m) THEN [month |-> m, date |-> n + 1]
  ELSE monthOfDay(n - daysInMonth(y, m), y, m + 1)

getFullYear(t) == yearOfDay(t \div Day, EpochYear).year

getMonth(t) ==
  LET yr == yearOfDay(t \div Day, EpochYear) IN monthOfDay(yr.rest, yr.year, 0).month

getDate(t) ==
  LET yr == yearOfDay(t \div Day, EpochYear) IN monthOfDay(yr.rest, yr.year, 0).date

(* the instant of year, month, date at the time of day given in minutes *)
MakeDate(year, month, date, time) ==
  LET y == year + (month \div 12)
      m == month % 12
  IN (daysBeforeYear(y) + daysBeforeMonth(y, m) + date - 1) * Day + time

setDate(t, date) == MakeDate(getFullYear(t), getMonth(t), date, t % Day)

setMonth(t, month) == MakeDate(getFullYear(t), month, getDate(t), t % Day)

----------------------------------------------------------------------------
(* ScheduleRecurringCommand *)

RECURRING_PATTERNS ==
  [daily |-> [interval |-> 1, type |-> "days"],
   weekly |-> [interval |-> 7, type |-> "days"],
   biweekly |-> [interval |-> 14, type |-> "days"],
   monthly |-> [interval |-> 1, type |-> "months"]]

(* calculateNextOccurrence with the interval of a 'days' pattern taken in    *)
(* weeks                                                                     *)
calculateNextOccurrenceInWeeks(currentDate, pattern) ==
  CASE pattern.type = "days" -> setDate(currentDate, getDate(currentDate) + pattern.interval * 7)
    [] pattern.type = "weeks" -> setDate(currentDate, getDate(currentDate) + pattern.interval * 7)
    [] pattern.type = "months" -> setMonth(currentDate, getMonth(currentDate) + pattern.interval)
    [] OTHER -> currentDate

calculateNextOccurrence(currentDate, pattern) ==
  CASE pattern.type = "days" -> setDate(currentDate, getDate(currentDate) + pattern.interval)
    [] pattern.type = "weeks" -> setDate(currentDate, getDate(currentDate) + pattern.interval * 7)
    [] pattern.type = "months" -> setMonth(currentDate, getMonth(currentDate) + pattern.interval)
    [] OTHER -> currentDate

(* the while loop: the start times of the meetings it creates, in order *)
RECURSIVE occurrences(_, _, _, _, _)
occurrences(currentDate, endDate, occurrenceCount, maxOccurrences, pattern) ==
  IF currentDate <= endDate /\ occurrenceCount < maxOccurrences
  THEN <<currentDate>> \o occurrences(calculateNextOccurrence(currentDate, pattern), endDate,
                                      occurrenceCount + 1, maxOccurrences, pattern)
  ELSE <<>>

(* createRecurringMeetings with the count of the validation's upper limit *)
(* where no maximum is given                                              *)
createRecurringMeetingsUpToLimit(sanitizedInput) ==
  LET pattern == RECURRING_PATTERNS[sanitizedInput.pattern]
      startDate == sanitizedInput.parsed_datetime
      maxOccurrences == IF sanitizedInput.max_occurrences # 0
                        THEN sanitizedInput.max_occurrences ELSE 52
      endDate == IF sanitizedInput.parsed_end_date # 0
                 THEN sanitizedInput.parsed_end_date
                 ELSE startDate + 365 * Day
  IN occurrences(startDate, endDate, 0, maxOccurrences, pattern)

(* max_occurrences 0 and parsed_end_date 0 stand for an option not given *)
createRecurringMeetings(sanitizedInput) ==
  LET pattern == RECURRING_PATTERNS[sanitizedInput.pattern]
      startDate == sanitizedInput.parsed_datetime
      maxOccurrences == IF sanitizedInput.max_occurrences # 0
                        THEN sanitizedInput.max_occurrences ELSE 10
      endDate == IF sanitizedInput.parsed_end_date # 0
                 THEN sanitizedInput.parsed_end_date
                 ELSE startDate + 365 * Day
  IN occurrences(startDate, endDate, 0, maxOccurrences, pattern)

----------------------------------------------------------------------------
(* NotificationService: retention *)

(* A timestamp as the text SQLite compares: the date, the separator and the *)
(* time of day.  CURRENT_TIMESTAMP writes 'YYYY-MM-DD HH:MM:SS',            *)
(* Date.prototype.toISOString writes 'YYYY-MM-DDTHH:MM:SS.sssZ'.            *)
CURRENT_TIMESTAMP(t) == [date |-> t \div Day, sep |-> " ", time |-> t % Day]

toISOString(t) == [date |-> t \div Day, sep |-> "T", time |-> t % Day]

(* a < b for two such texts: byte by byte, and a space sorts before a 'T' *)
TextLess(a, b) ==
  \/ a.date < b.date
  \/ /\ a.date = b.date
     /\ \/ (a.sep = " " /\ b.sep = "T")
        \/ (a.sep = b.sep /\ a.time < b.time)

(* DELETE FROM notifications WHERE created_at < ? AND status != ? *)
cleanupOldNotifications(rows, clock) ==
  LET cutoffDate == setDate(clock, getDate(clock) - 30)
  IN {n \in rows : ~(TextLess(n.created_at, toISOString(cutoffDate)) /\ n.status # "pending")}

----------------------------------------------------------------------------
(* MeetingService.validateMeetingProposal.  A field of meetingData is a     *)
(* record: given is FALSE for a field that is undefined, v is its value.    *)

RECURSIVE trimStart(_)
trimStart(s) == IF s # <<>> /\ Head(s) = " " THEN trimStart(Tail(s)) ELSE s

RECURSIVE trimEnd(_)
trimEnd(s) ==
  IF s # <<>> /\ s[Len(s)] = " " THEN trimEnd(SubSeq(s, 1, Len(s) - 1)) ELSE s

trim(s) == trimEnd(trimStart(s))

(* the list of error messages; a value that is undefined, 0 or '' is falsy *)
validateMeetingProposal(meetingData, clock) ==
  (IF ~meetingData.title.given \/ Len(trim(meetingData.title.v)) = 0
   THEN <<"Meeting title is required">> ELSE <<>>)
  \o (IF ~meetingData.proposed_datetime.given
      THEN <<"Meeting date and time is required">>
      ELSE IF meetingData.proposed_datetime.v <= clock
           THEN <<"Meeting time must be in the future">> ELSE <<>>)
  \o (IF ~meetingData.timezone.given \/ meetingData.timezone.v = ""
      THEN <<"Timezone is required">> ELSE <<>>)
  \o (IF meetingData.duration_minutes.given /\ meetingData.duration_minutes.v # 0
         /\ (meetingData.duration_minutes.v < 15 \/ meetingData.duration_minutes.v > 480)
      THEN <<"Meeting duration must be between 15 and 480 minutes">> ELSE <<>>)

----------------------------------------------------------------------------
(* Initial state: an empty database, no sweep running *)

IdleReschedule == [pc |-> "idle", meetingId |-> 0, newDateTime |-> 0]

(* commands that ask the rate limiter, and the keys they make *)
CommandNames == {"propose-meeting", "quick-poll"}
RateKeys == {u \o ":" \o c : u \in Users, c \in CommandNames}

(* the rate limiter's Map is empty when the module is loaded *)
InitRate ==
  /\ rateLimiter = [k \in {} |-> 0]
  /\ rateGranted = [key \in RateKeys |-> [opened |-> 0, n |-> 0]]

InitService ==
  /\ now = StartNow
  /\ meetings = <<>>
  /\ responses = <<>>
  /\ notifications = {}
  /\ lastNotifId = 0
  /\ sweepPc = [s \in Sweeps |-> "idle"]
  /\ sweepBatch = [s \in Sweeps |-> <<>>]
  /\ cancelPc = [m \in 1..MaxMeetings |-> "idle"]
  /\ rescheduleReq = [r \in Requests |-> IdleReschedule]
  /\ attempts = [i \in 1..MaxNotifs |-> 0]
  /\ cancelReturned = {}
  /\ sweepSeen = [s \in Sweeps |-> {}]
  /\ lateReminder = {}
  /\ failedDelivery = {}
  /\ failedSeen = [s \in Sweeps |-> {}]

IdleReq == [pc |-> "idle", user |-> "none", start |-> 0, end |-> 0]
NoQuery == [op |-> "none"]

Init ==
  /\ InitService
  /\ availability = {}
  /\ lastAvailId = 0
  /\ profiles = [u \in Users |-> users(u)]
  /\ InitRate
  /\ busyReq = [r \in Requests |-> IdleReq]
  /\ query = NoQuery
  /\ reply = <<>>

(* the clock advances *)
Tick ==
  /\ now + TickStep <= StartNow + MaxTicks * TickStep
  /\ now' = now + TickStep
  /\ UNCHANGED <<dbVars, procVars, histVars>>
  /\ UNCHANGED <<availVars, queryVars>>

----------------------------------------------------------------------------
(* MeetingService *)

(* proposeMeeting: validate, create, scheduleNotifications(meeting) *)
ProposeMeeting(caller, start) ==
  /\ Len(meetings) < MaxMeetings
  /\ start > now
  /\ LET id == Len(meetings) + 1
         db == scheduleNotifications([rows |-> notifications, last |-> lastNotifId],
                                     responses, id, start, now)
     IN /\ db.last <= MaxNotifs
        /\ meetings' = Append(meetings, [id |-> id,
                                         proposer_id |-> caller,
                                         proposed_datetime |-> start,
                                         status |-> "proposed"])
        /\ notifications' = db.rows
        /\ lastNotifId' = db.last
  /\ UNCHANGED <<now, responses, procVars, histVars>>
  /\ UNCHANGED <<availVars, queryVars>>

(* recordResponse: INSERT OR REPLACE INTO meeting_responses *)
RecordResponse(m, u, response) ==
  /\ m \in MeetingIds
  /\ meetings[m].status # "cancelled"
  /\ LET others == SelectSeq(responses, LAMBDA r : ~(r.meeting_id = m /\ r.user_id = u))
     IN /\ Len(others) < MaxResponses
        /\ responses' = Append(others, [meeting_id |-> m, user_id |-> u,
                                        response |-> response])
  /\ UNCHANGED <<now, meetings, notifications, lastNotifId, procVars, histVars>>
  /\ UNCHANGED <<availVars, queryVars>>

(* updateMeeting: reschedule when the time is given, then update the row *)
UpdateMeeting(m, caller, updateData) ==
  /\ m \in MeetingIds
  /\ meetings[m].proposer_id = caller
  /\ LET db == IF "proposed_datetime" \in DOMAIN updateData
               THEN rescheduleNotifications(
                      [rows |-> notifications, last |-> lastNotifId],
                      responses, meetings, m, updateData.proposed_datetime, now)
               ELSE [rows |-> notifications, last |-> lastNotifId]
     IN /\ db.last <= MaxNotifs
        /\ notifications' = db.rows
        /\ lastNotifId' = db.last
  /\ meetings' = MeetingRepositoryUpdate(meetings, m, updateData)
  /\ UNCHANGED <<now, responses, procVars, histVars>>
  /\ UNCHANGED <<availVars, queryVars>>

(* confirmMeeting *)
ConfirmMeeting(m, caller) ==
  /\ m \in MeetingIds
  /\ meetings[m].proposer_id = caller
  /\ availableCount(responses, m) # 0
  /\ meetings' = updateStatus(meetings, m, "confirmed")
  /\ UNCHANGED <<now, responses, notifications, lastNotifId, procVars, histVars>>
  /\ UNCHANGED <<availVars, queryVars>>

(* cancelMeeting up to its first write: the meeting row is cancelled *)
CancelMeetingStatus(m, caller) ==
  /\ m \in MeetingIds
  /\ meetings[m].proposer_id = caller
  /\ cancelPc[m] = "idle"
  /\ meetings' = updateStatus(meetings, m, "cancelled")
  /\ cancelPc' = [cancelPc EXCEPT ![m] = "cancelling"]
  /\ UNCHANGED <<now, responses, notifications, lastNotifId,
                 sweepPc, sweepBatch, rescheduleReq, histVars>>
  /\ UNCHANGED <<availVars, queryVars>>

(* cancelMeeting from cancelNotifications to its return *)
CancelMeetingReturn(m) ==
  /\ m \in MeetingIds
  /\ cancelPc[m] = "cancelling"
  /\ notifications' = cancelNotifications(notifications, m)
  /\ cancelPc' = [cancelPc EXCEPT ![m] = "idle"]
  /\ cancelReturned' = cancelReturned \cup {m}
  /\ UNCHANGED <<now, meetings, responses, lastNotifId, sweepPc, sweepBatch,
                 rescheduleReq, attempts, sweepSeen, lateReminder, failedDelivery, failedSeen>>
  /\ UNCHANGED <<availVars, queryVars>>

----------------------------------------------------------------------------
(* The dispatcher sweep, processScheduledNotifications *)

(* the SELECT of the due set; an empty due set ends the sweep at once *)
SweepSelect(s) ==
  /\ sweepPc[s] = "idle"
  /\ s = 2 => sweepPc[1] = "running"
  /\ LET batch == pendingNotifications(notifications, meetings, now)
     IN /\ sweepBatch' = [sweepBatch EXCEPT ![s] = batch]
        /\ sweepPc' = [sweepPc EXCEPT ![s] = IF batch = <<>> THEN "idle" ELSE "running"]
  /\ sweepSeen' = [sweepSeen EXCEPT ![s] = cancelReturned]
  /\ failedSeen' = [failedSeen EXCEPT ![s] = failedDelivery]
  /\ UNCHANGED <<now, dbVars, cancelPc, rescheduleReq, attempts, cancelReturned, lateReminder,
                 failedDelivery>>
  /\ UNCHANGED <<availVars, queryVars>>

(* sendNotification for the next row of the batch.  outcome: "sent" (user.send *)
(* resolved), "failed" (user.send threw), "user_not_found" (fetch gave none).  *)
SweepSend(s, outcome) ==
  /\ sweepPc[s] = "running"
  /\ LET notification == Head(sweepBatch[s])
         rest == Tail(sweepBatch[s])
         tried == outcome # "user_not_found"
     IN /\ notifications' = markNotificationSent(notifications, notification.id, outcome)
        /\ sweepBatch' = [sweepBatch EXCEPT ![s] = rest]
        /\ sweepPc' = [sweepPc EXCEPT ![s] = IF rest = <<>> THEN "idle" ELSE "running"]
        /\ attempts' = IF tried /\ attempts[notification.nid] < 2
                       THEN [attempts EXCEPT ![notification.nid] = @ + 1]
                       ELSE attempts
        /\ failedDelivery' = IF outcome = "failed"
                             THEN failedDelivery \cup {notification.nid}
                             ELSE failedDelivery
        /\ lateReminder' = IF tried /\ notification.meeting_id \in sweepSeen[s]
                           THEN lateReminder \cup {notification.meeting_id}
                           ELSE lateReminder
  /\ UNCHANGED <<now, meetings, responses, lastNotifId, cancelPc, rescheduleReq,
                 cancelReturned, sweepSeen, failedSeen>>
  /\ UNCHANGED <<availVars, queryVars>>

----------------------------------------------------------------------------
Responses == {"available", "maybe", "unavailable"}
Statuses == {"proposed", "confirmed", "cancelled"}
UpdateInputs ==
  {[proposed_datetime |-> t] : t \in RescheduleTimes} \cup {[status |-> st] : st \in Statuses}
Outcomes == {"sent", "failed", "user_not_found"}

Next ==
  \/ Tick
  \/ \E t \in ProposeTimes : ProposeMeeting(Proposer, t)
  \/ \E m \in 1..MaxMeetings, u \in Users, r \in Responses : RecordResponse(m, u, r)
  \/ \E m \in 1..MaxMeetings, u \in Users, d \in UpdateInputs : UpdateMeeting(m, u, d)
  \/ \E m \in 1..MaxMeetings, u \in Users : ConfirmMeeting(m, u)
  \/ \E m \in 1..MaxMeetings, u \in Users : CancelMeetingStatus(m, u)
  \/ \E m \in 1..MaxMeetings : CancelMeetingReturn(m)
  \/ \E s \in Sweeps : SweepSelect(s)
  \/ \E s \in Sweeps, o \in Outcomes : SweepSend(s, o)

Spec == Init /\ [][Next]_vars

----------------------------------------------------------------------------
(* The service with its periodic sweep: the cron timer keeps firing, so a   *)
(* sweep that can start does start, and a sweep that has taken its due set  *)
(* goes on to the next row of it.                                           *)

SpecLive ==
  /\ Init
  /\ [][Next]_vars
  /\ WF_vars(\E s \in Sweeps : SweepSelect(s))
  /\ WF_vars(\E s \in Sweeps, o \in Outcomes : SweepSend(s, o))

----------------------------------------------------------------------------
(* Scheduling for a participant whose stored notification_preferences are   *)
(* any list of tokens: updateUserNotificationPreferences stores the list it *)
(* is given as it is.                                                        *)

OffsetTokens ==
  {<<"1", "h">>, <<"3", "0", "m">>, <<"1", "w">>, <<"x", "h">>, <<"2", "x">>}
PreferenceLists ==
  {<<t>> : t \in OffsetTokens} \cup {<<<<"1", "h">>, <<"1", "w">>>>}

(* scheduleUserNotifications(meeting, participant), reminderTimes being the  *)
(* participant's stored preferences                                          *)
ScheduleUserNotifications(m, userId, reminderTimes) ==
  /\ m \in MeetingIds
  /\ LET userMeetingTime == convertToUserTimezone(meetings[m].proposed_datetime,
                                                  users(userId).timezone)
         db == scheduleReminders([rows |-> notifications, last |-> lastNotifId],
                                 m, userId, userMeetingTime, reminderTimes, now)
     IN /\ db.last <= MaxNotifs
        /\ notifications' = db.rows
        /\ lastNotifId' = db.last
  /\ UNCHANGED <<now, meetings, responses, procVars, histVars, availVars, queryVars>>

NextTokens ==
  \/ Tick
  \/ \E t \in ProposeTimes : ProposeMeeting(Proposer, t)
  \/ \E m \in 1..MaxMeetings, u \in Users, p \in PreferenceLists :
       ScheduleUserNotifications(m, u, p)

SpecTokens == Init /\ [][NextTokens]_vars

----------------------------------------------------------------------------
(* SetBusyCommand.execute, in two steps: the conflict check and the insert   *)
(* are separate awaits, so steps of other requests can fall between them.    *)

BusyIntervals ==
  {<<10 * 60, 11 * 60>>, <<11 * 60, 12 * 60>>, <<10 * 60 + 30, 11 * 60 + 30>>,
   <<12 * 60, 11 * 60>>}

(* validation and findConflicts; a request with conflicts is answered with  *)
(* the conflict list and ends                                                *)
SetBusyCheck(r, userId, start, end) ==
  /\ busyReq[r].pc = "idle"
  /\ start < end
  /\ LET conflicts == findConflicts(availability, userId, start, end, 0)
     IN busyReq' = [busyReq EXCEPT ![r] =
                      IF Len(conflicts) > 0 THEN IdleReq
                      ELSE [pc |-> "checked", user |-> userId,
                            start |-> start, end |-> end]]
  /\ UNCHANGED <<availability, lastAvailId, profiles, rateLimiter, rateGranted,
                 mainVars, queryVars>>

(* setBusyPeriod and the reply *)
SetBusyInsert(r) ==
  /\ busyReq[r].pc = "checked"
  /\ lastAvailId < MaxAvail
  /\ LET db == setBusyPeriod([rows |-> availability, last |-> lastAvailId],
                             busyReq[r].user, busyReq[r].start, busyReq[r].end)
     IN /\ availability' = db.rows
        /\ lastAvailId' = db.last
  /\ busyReq' = [busyReq EXCEPT ![r] = IdleReq]
  /\ UNCHANGED <<profiles, rateLimiter, rateGranted, mainVars, queryVars>>

NextAvail ==
  \/ \E r \in Requests, u \in Users, iv \in BusyIntervals : SetBusyCheck(r, u, iv[1], iv[2])
  \/ \E r \in Requests : SetBusyInsert(r)

SpecAvail == Init /\ [][NextAvail]_vars

----------------------------------------------------------------------------
(* The read-only calls on a stored table: findConflicts and                  *)
(* findOptimalMeetingTime applied to the rows the table holds                *)

StoredRows ==
  {[id |-> 1, user_id |-> "u1", availability_type |-> "busy",
    start_datetime |-> 10 * 60, end_datetime |-> 11 * 60],
   [id |-> 2, user_id |-> "u1", availability_type |-> "busy",
    start_datetime |-> 11 * 60 + 30, end_datetime |-> 12 * 60],
   [id |-> 3, user_id |-> "u2", availability_type |-> "busy",
    start_datetime |-> 10 * 60, end_datetime |-> 11 * 60],
   [id |-> 4, user_id |-> "u1", availability_type |-> "available",
    start_datetime |-> 10 * 60 + 30, end_datetime |-> 11 * 60 + 30],
   [id |-> 5, user_id |-> "u1", availability_type |-> "busy",
    start_datetime |-> 9 * 60, end_datetime |-> 10 * 60],
   [id |-> 6, user_id |-> "u1", availability_type |-> "busy",
    start_datetime |-> Day + 14 * 60, end_datetime |-> Day + 15 * 60],
   [id |-> 7, user_id |-> "u1", availability_type |-> "busy",
    start_datetime |-> 12 * 60, end_datetime |-> Day + 13 * 60],
   [id |-> 8, user_id |-> "u2", availability_type |-> "busy",
    start_datetime |-> 12 * 60, end_datetime |-> Day + 13 * 60]}

InitStored ==
  /\ InitService
  /\ availability \in {S \in SUBSET StoredRows : Cardinality(S) <= MaxStored}
  /\ lastAvailId = Cardinality(StoredRows)
  /\ profiles = [u \in Users |-> users(u)]
  /\ InitRate
  /\ busyReq = [r \in Requests |-> IdleReq]
  /\ query = NoQuery
  /\ reply = <<>>

Candidates ==
  {<<11 * 60, 12 * 60>>, <<10 * 60 + 30, 11 * 60 + 30>>, <<10 * 60, 12 * 60>>,
   <<9 * 60, 10 * 60>>}
ExcludeIds == {0, 1}

FindConflicts(userId, startDateTime, endDateTime, excludeId) ==
  /\ startDateTime < endDateTime
  /\ query' = [op |-> "findConflicts", userId |-> userId,
               startDateTime |-> startDateTime, endDateTime |-> endDateTime,
               excludeId |-> excludeId]
  /\ reply' = findConflicts(availability, userId, startDateTime, endDateTime, excludeId)
  /\ UNCHANGED <<mainVars, availVars>>

UserLists == {<<>>, <<"u1">>, <<"u1", "u2">>}
Durations == {60, 90}
Windows ==
  {<<0, Day>>, <<12 * 60, Day + 13 * 60>>, <<5 * Day, 7 * Day>>}

FindOptimalMeetingTime(userIds, duration, startDate, endDate, workingHoursOnly) ==
  /\ query' = [op |-> "findOptimalMeetingTime", userIds |-> userIds,
               duration |-> duration, startDate |-> startDate, endDate |-> endDate,
               workingHoursOnly |-> workingHoursOnly]
  /\ reply' = findOptimalMeetingTime(availability, userIds, duration, startDate, endDate,
                                     workingHoursOnly)
  /\ UNCHANGED <<mainVars, availVars>>

SuggestOptimalMeetingTimes(userIds, startDate, endDate) ==
  /\ query' = [op |-> "suggestOptimalMeetingTimes", userIds |-> userIds,
               startDate |-> startDate, endDate |-> endDate]
  /\ reply' = suggestOptimalMeetingTimes(availability, userIds, startDate, endDate)
  /\ UNCHANGED <<mainVars, availVars>>

NextStored ==
  \/ \E u \in Users, c \in Candidates, x \in ExcludeIds : FindConflicts(u, c[1], c[2], x)
  \/ \E ids \in UserLists, w \in Windows : SuggestOptimalMeetingTimes(ids, w[1], w[2])
  \/ \E ids \in UserLists, d \in Durations, w \in Windows, f \in BOOLEAN :
       FindOptimalMeetingTime(ids, d, w[1], w[2], f)

SpecStored == InitStored /\ [][NextStored]_vars

----------------------------------------------------------------------------
(* The recurring series: /schedule-recurring on an empty database, the clock *)
(* at 2024-01-01T09:00Z                                                      *)

InitRecurring ==
  /\ now = 9 * 60
  /\ meetings = <<>>
  /\ responses = <<>>
  /\ notifications = {}
  /\ lastNotifId = 0
  /\ sweepPc = [s \in Sweeps |-> "idle"]
  /\ sweepBatch = [s \in Sweeps |-> <<>>]
  /\ cancelPc = [m \in 1..MaxMeetings |-> "idle"]
  /\ rescheduleReq = [r \in Requests |-> IdleReschedule]
  /\ attempts = [i \in 1..MaxNotifs |-> 0]
  /\ cancelReturned = {}
  /\ sweepSeen = [s \in Sweeps |-> {}]
  /\ lateReminder = {}
  /\ failedDelivery = {}
  /\ failedSeen = [s \in Sweeps |-> {}]
  /\ availability = {}
  /\ lastAvailId = 0
  /\ profiles = [u \in Users |-> users(u)]
  /\ InitRate
  /\ busyReq = [r \in Requests |-> IdleReq]
  /\ query = NoQuery
  /\ reply = <<>>

PatternNames == {"daily", "weekly", "biweekly", "monthly"}
SeriesStarts == {10 * 60, 14 * Day + 10 * 60, 30 * Day + 9 * 60}
SeriesLengths == {0, 2, 3}
(* the end date has the time of day of the start: 0 (none), 7, 14 or 59 days on *)
SeriesSpans == {0, 7, 14, 59}

RecurringInputs ==
  {[pattern |-> p, parsed_datetime |-> s, max_occurrences |-> n,
    parsed_end_date |-> IF d = 0 THEN 0 ELSE s + d * Day] :
     p \in PatternNames, s \in SeriesStarts, n \in SeriesLengths, d \in SeriesSpans}

(* validateRecurringInput, then createRecurringMeetings: one meetings row per *)
(* occurrence                                                                *)
CreateRecurringMeetings(caller, sanitizedInput) ==
  /\ sanitizedInput.parsed_datetime > now
  /\ sanitizedInput.pattern \in DOMAIN RECURRING_PATTERNS
  /\ sanitizedInput.parsed_end_date # 0 =>
       sanitizedInput.parsed_end_date > sanitizedInput.parsed_datetime
  /\ sanitizedInput.max_occurrences # 0 =>
       (sanitizedInput.max_occurrences >= 1 /\ sanitizedInput.max_occurrences <= 52)
  /\ LET dates == createRecurringMeetings(sanitizedInput)
         created == [i \in 1..Len(dates) |->
                       [id |-> Len(meetings) + i,
                        proposer_id |-> caller,
                        proposed_datetime |-> dates[i],
                        status |-> "proposed"]]
     IN /\ Len(meetings) < MaxSeriesRows
        /\ meetings' = meetings \o created
        /\ reply' = created
  /\ query' = [op |-> "createRecurringMeetings", input |-> sanitizedInput]
  /\ UNCHANGED <<now, responses, notifications, lastNotifId, procVars, histVars, availVars>>

NextRecurring ==
  \E input \in RecurringInputs : CreateRecurringMeetings(Proposer, input)

SpecRecurring == InitRecurring /\ [][NextRecurring]_vars

----------------------------------------------------------------------------
(* The retention sweep and cancelMeeting on a stored notifications table:  *)
(* two meetings, jobs 1 and 2 of the first and job 3 of the second, in any  *)
(* status.  The rows carry created_at, the column's default                 *)
(* CURRENT_TIMESTAMP at their insertion.                                    *)

JobCreationTimes == {1 * 60, 23 * 60, Day + 12 * 60}
JobStatuses == {"pending", "sent", "failed", "cancelled"}

StoredJobs ==
  {[id |-> IF c = 1 * 60 THEN 1 ELSE IF c = 23 * 60 THEN 2 ELSE 3,
    meeting_id |-> IF c < Day THEN 1 ELSE 2,
    user_id |-> "u1",
    notification_time |-> c + Day,
    notification_type |-> <<"1", "h">>,
    status |-> st,
    created_at |-> CURRENT_TIMESTAMP(c)] : c \in JobCreationTimes, st \in JobStatuses}

CleanupClocks == {30 * Day + 6 * 60, 31 * Day + 6 * 60}

StoredMeetings ==
  <<[id |-> 1, proposer_id |-> Proposer, proposed_datetime |-> 32 * Day, status |-> "proposed"],
    [id |-> 2, proposer_id |-> Proposer, proposed_datetime |-> 33 * Day, status |-> "proposed"]>>

InitStoredJobs ==
  /\ now \in CleanupClocks
  /\ meetings = StoredMeetings
  /\ responses = <<>>
  /\ notifications \in {S \in SUBSET StoredJobs :
                          /\ Cardinality(S) <= MaxStoredJobs
                          /\ \A a \in S : \A b \in S : a.id = b.id => a = b}
  /\ lastNotifId = Cardinality(JobCreationTimes)
  /\ sweepPc = [s \in Sweeps |-> "idle"]
  /\ sweepBatch = [s \in Sweeps |-> <<>>]
  /\ cancelPc = [m \in 1..Len(StoredMeetings) |-> "idle"]
  /\ rescheduleReq = [r \in Requests |-> IdleReschedule]
  /\ attempts = [i \in 1..MaxNotifs |-> 0]
  /\ cancelReturned = {}
  /\ sweepSeen = [s \in Sweeps |-> {}]
  /\ lateReminder = {}
  /\ failedDelivery = {}
  /\ failedSeen = [s \in Sweeps |-> {}]
  /\ availability = {}
  /\ lastAvailId = 0
  /\ profiles = [u \in Users |-> users(u)]
  /\ InitRate
  /\ busyReq = [r \in Requests |-> IdleReq]
  /\ query = NoQuery
  /\ reply = <<>>

CleanupOldNotifications ==
  /\ notifications' = cleanupOldNotifications(notifications, now)
  /\ UNCHANGED <<now, meetings, responses, lastNotifId, procVars, histVars,
                 availVars, queryVars>>

NextStoredJobs ==
  \/ CleanupOldNotifications
  \/ \E m \in 1..Len(StoredMeetings), u \in Users : CancelMeetingStatus(m, u)
  \/ \E m \in 1..Len(StoredMeetings) : CancelMeetingReturn(m)

SpecStoredJobs == InitStoredJobs /\ [][NextStoredJobs]_vars

----------------------------------------------------------------------------
(* proposeMeeting on any meetingData.  The reply records what the call did: *)
(* the ValidationError it threw or the id of the meeting it returned, and   *)
(* the points it passed to userRepo.addPoints (the users table's points are *)
(* not otherwise part of the state).                                        *)

Undefined == [given |-> FALSE, v |-> 0]
Given(x) == [given |-> TRUE, v |-> x]

MeetingInputs ==
  {[proposer_id |-> Proposer, title |-> ti, proposed_datetime |-> dt,
    timezone |-> tz, duration_minutes |-> du] :
     ti \in {[given |-> FALSE, v |-> <<>>], Given(<<>>), Given(<<" ", " ">>),
             Given(<<"s", "y", "n", "c">>)},
     dt \in {Undefined, Given(StartNow), Given(9 * 60), Given(13 * 60)},
     tz \in {[given |-> FALSE, v |-> ""], Given("UTC")},
     du \in {Undefined, Given(0), Given(14), Given(15), Given(480), Given(481)}}

ProposeMeetingRequest(meetingData) ==
  /\ Len(meetings) < MaxMeetings
  /\ query' = [op |-> "proposeMeeting", meetingData |-> meetingData]
  /\ LET errors == validateMeetingProposal(meetingData, now)
         id == Len(meetings) + 1
         db == scheduleNotifications([rows |-> notifications, last |-> lastNotifId],
                                     responses, id, meetingData.proposed_datetime.v, now)
     IN IF errors # <<>>
        THEN /\ reply' = [error |-> "ValidationError", errors |-> errors,
                          meeting |-> 0, points |-> 0]
             /\ UNCHANGED <<meetings, notifications, lastNotifId>>
        ELSE /\ meetings' = Append(meetings,
                                   [id |-> id,
                                    proposer_id |-> meetingData.proposer_id,
                                    proposed_datetime |-> meetingData.proposed_datetime.v,
                                    duration_minutes |->
                                      IF meetingData.duration_minutes.given
                                      THEN meetingData.duration_minutes.v ELSE 60,
                                    status |-> "proposed"])
             /\ notifications' = db.rows
             /\ lastNotifId' = db.last
             /\ reply' = [error |-> "none", errors |-> <<>>, meeting |-> id, points |-> 10]
  /\ UNCHANGED <<now, responses, procVars, histVars, availVars>>

NextPropose ==
  \/ Tick
  \/ \E meetingData \in MeetingInputs : ProposeMeetingRequest(meetingData)

SpecPropose == Init /\ [][NextPropose]_vars

----------------------------------------------------------------------------
(* The calls on MeetingService and the response buttons, from entry to      *)
(* return, by any user and on any meeting id.  The reply records what the   *)
(* call did besides its writes: the error it threw ("none" when it          *)
(* returned), the users sendBulkNotification was given, and the points      *)
(* passed to userRepo.addPoints.                                             *)

Returned(notified, points) ==
  [error |-> "none", notified |-> notified, points |-> points]
Thrown(message) == [error |-> message, notified |-> {}, points |-> 0]

CallMeetingIds == 1..(MaxMeetings + 1)

(* participants.map(p => p.id) *)
participantIds(resp, meetingId) ==
  {p.user_id : p \in Range(getParticipants(resp, meetingId))}

UpdateMeetingCall(meetingId, userId, updateData) ==
  /\ query' = [op |-> "updateMeeting", meetingId |-> meetingId, userId |-> userId,
               updateData |-> updateData]
  /\ IF meetingId \notin MeetingIds
     THEN /\ reply' = Thrown("Meeting not found")
          /\ UNCHANGED <<meetings, notifications, lastNotifId>>
     ELSE IF meetings[meetingId].proposer_id # userId
     THEN /\ reply' = Thrown("Only the meeting proposer can update the meeting")
          /\ UNCHANGED <<meetings, notifications, lastNotifId>>
     ELSE LET db == IF "proposed_datetime" \in DOMAIN updateData
                    THEN rescheduleNotifications(
                           [rows |-> notifications, last |-> lastNotifId],
                           responses, meetings, meetingId, updateData.proposed_datetime, now)
                    ELSE [rows |-> notifications, last |-> lastNotifId]
          IN /\ db.last <= MaxNotifs
             /\ notifications' = db.rows
             /\ lastNotifId' = db.last
             /\ meetings' = MeetingRepositoryUpdate(meetings, meetingId, updateData)
             /\ reply' = Returned({}, 0)
  /\ UNCHANGED <<now, responses, procVars, histVars, availVars>>

ConfirmMeetingCall(meetingId, userId) ==
  /\ query' = [op |-> "confirmMeeting", meetingId |-> meetingId, userId |-> userId]
  /\ IF meetingId \notin MeetingIds
     THEN /\ reply' = Thrown("Meeting not found")
          /\ UNCHANGED meetings
     ELSE IF meetings[meetingId].proposer_id # userId
     THEN /\ reply' = Thrown("Only the meeting proposer can confirm the meeting")
          /\ UNCHANGED meetings
     ELSE IF availableCount(responses, meetingId) = 0
     THEN /\ reply' = Thrown("Cannot confirm meeting with no available participants")
          /\ UNCHANGED meetings
     ELSE /\ meetings' = updateStatus(meetings, meetingId, "confirmed")
          /\ reply' = Returned({p.user_id : p \in {q \in Range(getParticipants(responses, meetingId)) :
                                                     q.response = "available"}}, 15)
  /\ UNCHANGED <<now, responses, notifications, lastNotifId, procVars, histVars, availVars>>

(* cancelMeeting without the test of the caller *)
CancelMeetingCallByAnyUser(meetingId, userId) ==
  /\ query' = [op |-> "cancelMeeting", meetingId |-> meetingId, userId |-> userId]
  /\ IF meetingId \notin MeetingIds
     THEN /\ reply' = Thrown("Meeting not found")
          /\ UNCHANGED <<meetings, notifications>>
     ELSE /\ meetings' = updateStatus(meetings, meetingId, "cancelled")
          /\ notifications' = cancelNotifications(notifications, meetingId)
          /\ reply' = Returned(participantIds(responses, meetingId), 0)
  /\ UNCHANGED <<now, responses, lastNotifId, procVars, histVars, availVars>>

CancelMeetingCall(meetingId, userId) ==
  /\ query' = [op |-> "cancelMeeting", meetingId |-> meetingId, userId |-> userId]
  /\ IF meetingId \notin MeetingIds
     THEN /\ reply' = Thrown("Meeting not found")
          /\ UNCHANGED <<meetings, notifications>>
     ELSE IF meetings[meetingId].proposer_id # userId
     THEN /\ reply' = Thrown("Only the meeting proposer can cancel the meeting")
          /\ UNCHANGED <<meetings, notifications>>
     ELSE /\ meetings' = updateStatus(meetings, meetingId, "cancelled")
          /\ notifications' = cancelNotifications(notifications, meetingId)
          /\ reply' = Returned(participantIds(responses, meetingId), 0)
  /\ UNCHANGED <<now, responses, lastNotifId, procVars, histVars, availVars>>

(* INSERT OR REPLACE INTO meeting_responses: UNIQUE(meeting_id, user_id) *)
insertOrReplaceResponse(resp, meetingId, userId, response) ==
  Append(SelectSeq(resp, LAMBDA r : ~(r.meeting_id = meetingId /\ r.user_id = userId)),
         [meeting_id |-> meetingId, user_id |-> userId, response |-> response])

(* MeetingService.recordResponse *)
RecordResponseCall(meetingId, userId, response) ==
  /\ query' = [op |-> "recordResponse", meetingId |-> meetingId, userId |-> userId,
               response |-> response]
  /\ IF meetingId \notin MeetingIds
     THEN /\ reply' = Thrown("Meeting not found")
          /\ UNCHANGED responses
     ELSE IF meetings[meetingId].status = "cancelled"
     THEN /\ reply' = Thrown("Cannot respond to a cancelled meeting")
          /\ UNCHANGED responses
     ELSE /\ responses' = insertOrReplaceResponse(responses, meetingId, userId, response)
          /\ reply' = Returned({}, 5)
  /\ UNCHANGED <<now, meetings, notifications, lastNotifId, procVars, histVars, availVars>>

(* ButtonHandler.recordMeetingResponse: the insert and the points *)
recordMeetingResponse(resp, meetingId, userId, response) ==
  [responses |-> insertOrReplaceResponse(resp, meetingId, userId, response),
   points |-> 5]

(* ButtonHandler.handleMeetingButton: the button of a meeting message.  For *)
(* 'unavailable' it shows the reason form and records nothing yet.          *)
HandleMeetingButton(meetingId, userId, responseType) ==
  /\ query' = [op |-> "handleMeetingButton", meetingId |-> meetingId, userId |-> userId,
               response |-> responseType]
  /\ IF meetingId \notin MeetingIds
     THEN /\ reply' = Thrown("Meeting not found")
          /\ UNCHANGED responses
     ELSE IF responseType = "unavailable"
     THEN /\ reply' = Returned({}, 0)
          /\ UNCHANGED responses
     ELSE LET done == recordMeetingResponse(responses, meetingId, userId, responseType)
          IN /\ responses' = done.responses
             /\ reply' = Returned({}, done.points)
  /\ UNCHANGED <<now, meetings, notifications, lastNotifId, procVars, histVars, availVars>>

(* ButtonHandler.handleMeetingResponseModal: the reason form of a meeting's *)
(* 'unavailable' button is submitted                                         *)
HandleMeetingResponseModal(meetingId, userId) ==
  /\ meetingId \in MeetingIds
  /\ query' = [op |-> "handleMeetingResponseModal", meetingId |-> meetingId,
               userId |-> userId, response |-> "unavailable"]
  /\ LET done == recordMeetingResponse(responses, meetingId, userId, "unavailable")
     IN /\ responses' = done.responses
        /\ reply' = Returned({}, done.points)
  /\ UNCHANGED <<now, meetings, notifications, lastNotifId, procVars, histVars, availVars>>

NextCalls ==
  \/ \E t \in ProposeTimes : ProposeMeeting(Proposer, t)
  \/ \E m \in CallMeetingIds, u \in Users, d \in UpdateInputs : UpdateMeetingCall(m, u, d)
  \/ \E m \in CallMeetingIds, u \in Users : ConfirmMeetingCall(m, u)
  \/ \E m \in CallMeetingIds, u \in Users : CancelMeetingCall(m, u)
  \/ \E m \in CallMeetingIds, u \in Users, r \in Responses : RecordResponseCall(m, u, r)
  \/ \E m \in CallMeetingIds, u \in Users, r \in Responses : HandleMeetingButton(m, u, r)
  \/ \E m \in CallMeetingIds, u \in Users : HandleMeetingResponseModal(m, u)

SpecCalls == Init /\ [][NextCalls]_vars

(* the calls of MeetingService alone, without the button handlers *)
NextService ==
  \/ \E t \in ProposeTimes : ProposeMeeting(Proposer, t)
  \/ \E m \in CallMeetingIds, u \in Users, d \in UpdateInputs : UpdateMeetingCall(m, u, d)
  \/ \E m \in CallMeetingIds, u \in Users : ConfirmMeetingCall(m, u)
  \/ \E m \in CallMeetingIds, u \in Users : CancelMeetingCall(m, u)
  \/ \E m \in CallMeetingIds, u \in Users, r \in Responses : RecordResponseCall(m, u, r)

SpecService == Init /\ [][NextService]_vars

----------------------------------------------------------------------------
(* The dispatcher on a backlog: the notifications table holds more pending  *)
(* jobs than one sweep takes, with fire times from 09:00 to 12:00; one      *)
(* sweep runs at a time and its deliveries succeed.                         *)

BacklogSizes == {BatchLimit - 1, BatchLimit + 4}
MaxBacklog == BatchLimit + 4

BacklogJob(i, status) ==
  [id |-> i,
   meeting_id |-> 1 + (i % 2),
   user_id |-> IF i % 3 = 0 THEN "u2" ELSE "u1",
   notification_time |-> 9 * 60 + ((i * 7) % 4) * 60,
   notification_type |-> <<"1", "h">>,
   status |-> status]

InitBacklog ==
  /\ now = StartNow
  /\ meetings = StoredMeetings
  /\ responses = <<>>
  /\ \E size \in BacklogSizes, done \in SUBSET {3, 4, 5} :
       notifications = {BacklogJob(i, IF i \in done THEN "sent" ELSE "pending") :
                          i \in 1..size}
  /\ lastNotifId = MaxBacklog
  /\ sweepPc = [s \in Sweeps |-> "idle"]
  /\ sweepBatch = [s \in Sweeps |-> <<>>]
  /\ cancelPc = [m \in 1..Len(StoredMeetings) |-> "idle"]
  /\ rescheduleReq = [r \in Requests |-> IdleReschedule]
  /\ attempts = [i \in 1..MaxBacklog |-> 0]
  /\ cancelReturned = {}
  /\ sweepSeen = [s \in Sweeps |-> {}]
  /\ lateReminder = {}
  /\ failedDelivery = {}
  /\ failedSeen = [s \in Sweeps |-> {}]
  /\ availability = {}
  /\ lastAvailId = 0
  /\ profiles = [u \in Users |-> users(u)]
  /\ InitRate
  /\ busyReq = [r \in Requests |-> IdleReq]
  /\ query = NoQuery
  /\ reply = <<>>

NextBacklog ==
  \/ Tick
  \/ SweepSelect(1)
  \/ SweepSend(1, "sent")

SpecBacklog == InitBacklog /\ [][NextBacklog]_vars

----------------------------------------------------------------------------
(* TimezoneUtils applied to any text and instant *)

Abbreviations ==
  {"UTC", "GMT", "EST", "EDT", "CST", "CDT", "MST", "MDT", "PST", "PDT",
   "CET", "CEST", "JST", "AEST", "AEDT", "est", "Cet", " JST "}

AliasNames ==
  {"helsinki", "berlin", "london", "paris", "tokyo", "sydney", "new york",
   "los angeles", "chicago", "denver", "Helsinki", "NEW YORK", " tokyo "}

ZoneIds ==
  {"America/Chicago", "America/Denver", "America/Los_Angeles",
   "America/New_York", "Asia/Kolkata", "Asia/Tokyo", "Australia/Sydney",
   "Europe/Berlin", "Europe/Helsinki", "Europe/London", "Europe/Paris",
   "europe/helsinki", "ASIA/TOKYO", " Europe/Berlin "}

OtherTexts ==
  {"Invalid/Timezone", "Mars/Olympus", "   ", "constructor", "__proto__",
   "Constructor"}

TimezoneInputs == Abbreviations \cup AliasNames \cup ZoneIds \cup OtherTexts \cup {""}

NormalizeTimezone(timezone) ==
  /\ query' = [op |-> "normalizeTimezone", timezone |-> timezone]
  /\ reply' = normalizeTimezone(timezone)
  /\ UNCHANGED <<mainVars, availVars>>

Instants ==
  {8 * 60 + 59, 9 * 60, 15 * 60, 16 * 60 + 59, 17 * 60, 22 * 60 + 30,
   Day + 6 * 60 + 59, InvalidDate}
WorkZones == {"UTC", "", "helsinki", "Europe/Helsinki", "EST", "Mars/Olympus", "   "}
WorkingHours ==
  {[start |-> 9, end |-> 17], [start |-> 18, end |-> 22], [start |-> 0, end |-> 23]}

IsWithinWorkingHours(dateTime, timezone, workingHours) ==
  /\ query' = [op |-> "isWithinWorkingHours", dateTime |-> dateTime,
               timezone |-> timezone, workingHours |-> workingHours]
  /\ reply' = [threw |-> FALSE,
               v |-> isWithinWorkingHours(dateTime, timezone, workingHours)]
  /\ UNCHANGED <<mainVars, availVars>>

NextTimezone ==
  \/ \E z \in TimezoneInputs : NormalizeTimezone(z)
  \/ \E t \in Instants, z \in WorkZones, h \in WorkingHours : IsWithinWorkingHours(t, z, h)

SpecTimezone == Init /\ [][NextTimezone]_vars

----------------------------------------------------------------------------
(* SetAvailabilityCommand: /set-availability by a user on their own profile *)

(* the notifications option: absent, or its text after split(',') and trim *)
NoList == [given |-> FALSE, v |-> <<>>]

validNotifications ==
  {<<"2", "4", "h">>, <<"1", "2", "h">>, <<"6", "h">>, <<"3", "h">>, <<"1", "h">>,
   <<"3", "0", "m">>, <<"1", "5", "m">>, <<"5", "m">>}

(* x || fallback on an integer option: null and 0 are falsy *)
OrElse(x, fallback) == IF x.given /\ x.v # 0 THEN x.v ELSE fallback

validateAvailabilitySettings(inputData) ==
  LET timezoneValidation == validateTimezone(inputData.timezone)
      startHour == OrElse(inputData.start_hour, 9)
      endHour == OrElse(inputData.end_hour, 17)
      workingHoursValid == ~(startHour < 0 \/ startHour > 23)
                           /\ ~(endHour < 0 \/ endHour > 23)
      hasList == inputData.notifications.given /\ inputData.notifications.v # <<>>
      invalidNotifications ==
        SelectSeq(inputData.notifications.v, LAMBDA n : n \notin validNotifications)
      errors ==
        (IF ~timezoneValidation.isValid THEN {"timezone"} ELSE {})
        \cup (IF startHour < 0 \/ startHour > 23 THEN {"start_hour"} ELSE {})
        \cup (IF endHour < 0 \/ endHour > 23 THEN {"end_hour"} ELSE {})
        \cup (IF workingHoursValid /\ startHour >= endHour THEN {"working_hours"} ELSE {})
        \cup (IF hasList /\ Len(invalidNotifications) > 0 THEN {"notifications"} ELSE {})
  IN [isValid |-> errors = {},
      errors |-> errors,
      normalizedTimezone |->
        IF timezoneValidation.isValid THEN timezoneValidation.normalized ELSE "",
      notificationPreferences |->
        IF hasList /\ Len(invalidNotifications) = 0
        THEN inputData.notifications ELSE NoList]

HourOptions == {Undefined, Given(0), Given(8), Given(20)}
AvailabilityInputs ==
  {[timezone |-> tz, start_hour |-> sh, end_hour |-> eh, notifications |-> nf] :
     tz \in {"UTC", "helsinki", "Mars/Olympus"},
     sh \in HourOptions, eh \in HourOptions,
     nf \in {NoList, Given(<< <<"1", "h">>, <<"5", "m">> >>), Given(<< <<"1", "w">> >>)}}

(* execute: validate, userRepo.update, addPoints(5) *)
SetAvailability(userId, inputData) ==
  /\ query' = [op |-> "set-availability", userId |-> userId, inputData |-> inputData]
  /\ LET validation == validateAvailabilitySettings(inputData)
         hours == [profiles[userId] EXCEPT
                     !.timezone = validation.normalizedTimezone,
                     !.working_hours_start = OrElse(inputData.start_hour, 9),
                     !.working_hours_end = OrElse(inputData.end_hour, 17)]
     IN IF ~validation.isValid
        THEN /\ reply' = [error |-> "Error", errors |-> validation.errors, points |-> 0]
             /\ UNCHANGED profiles
        ELSE /\ profiles' =
                  [profiles EXCEPT ![userId] =
                     IF validation.notificationPreferences.given
                     THEN [hours EXCEPT !.notification_preferences =
                                          validation.notificationPreferences.v]
                     ELSE hours]
             /\ reply' = [error |-> "none", errors |-> {}, points |-> 5]
  /\ UNCHANGED <<mainVars, availability, lastAvailId, busyReq, rateLimiter, rateGranted>>

(* the command writes the row of interaction.user.id only: one requesting *)
(* user is enough to reach every profile that user can store              *)
NextProfile ==
  \E inputData \in AvailabilityInputs : SetAvailability(Proposer, inputData)

SpecProfile == Init /\ [][NextProfile]_vars

----------------------------------------------------------------------------
(* NotificationService called on its own: scheduleNotifications as one step, *)
(* rescheduleNotifications in two (its DELETE, then the rest), so that two   *)
(* calls for the same meeting can interleave.  Both end in a catch block     *)
(* that logs the error: the caller always sees the promise resolve.          *)

ScheduleNotificationsCall(meetingId) ==
  /\ meetingId \in MeetingIds
  /\ query' = [op |-> "scheduleNotifications", meetingId |-> meetingId,
               newDateTime |-> meetings[meetingId].proposed_datetime]
  /\ LET db == scheduleNotifications([rows |-> notifications, last |-> lastNotifId],
                                     responses, meetingId,
                                     meetings[meetingId].proposed_datetime, now)
     IN /\ db.last <= MaxNotifs
        /\ notifications' = db.rows
        /\ lastNotifId' = db.last
  /\ reply' = Returned({}, 0)
  /\ UNCHANGED <<now, meetings, responses, procVars, histVars, availVars>>

(* rescheduleNotifications up to and including its DELETE *)
RescheduleDelete(r, meetingId, newDateTime) ==
  /\ rescheduleReq[r].pc = "idle"
  /\ notifications' = deletePending(notifications, meetingId)
  /\ rescheduleReq' = [rescheduleReq EXCEPT ![r] =
                         [pc |-> "deleted", meetingId |-> meetingId,
                          newDateTime |-> newDateTime]]
  /\ UNCHANGED <<now, meetings, responses, lastNotifId, sweepPc, sweepBatch, cancelPc,
                 histVars, availVars, queryVars>>

(* rescheduleNotifications from findById to its return *)
RescheduleReturn(r) ==
  /\ rescheduleReq[r].pc = "deleted"
  /\ LET db == scheduleIfFound([rows |-> notifications, last |-> lastNotifId],
                               responses, meetings, rescheduleReq[r].meetingId,
                               rescheduleReq[r].newDateTime, now)
     IN /\ db.last <= MaxNotifs
        /\ notifications' = db.rows
        /\ lastNotifId' = db.last
  /\ rescheduleReq' = [rescheduleReq EXCEPT ![r] = IdleReschedule]
  /\ query' = [op |-> "rescheduleNotifications", meetingId |-> rescheduleReq[r].meetingId,
               newDateTime |-> rescheduleReq[r].newDateTime]
  /\ reply' = Returned({}, 0)
  /\ UNCHANGED <<now, meetings, responses, sweepPc, sweepBatch, cancelPc,
                 histVars, availVars>>

NextReschedule ==
  \/ \E t \in ProposeTimes : ProposeMeeting(Proposer, t)
  \/ \E m \in 1..MaxMeetings, u \in Users, r \in Responses : RecordResponse(m, u, r)
  \/ \E m \in CallMeetingIds : ScheduleNotificationsCall(m)
  \/ \E r \in Requests, m \in CallMeetingIds, t \in RescheduleTimes : RescheduleDelete(r, m, t)
  \/ \E r \in Requests : RescheduleReturn(r)

SpecReschedule == Init /\ [][NextReschedule]_vars

----------------------------------------------------------------------------
(* The rate limiter: a process-wide Map from `${userId}:${commandName}` to  *)
(* the count and the reset time of the key's current window                 *)

(* config/environment: requests per window, and the window's length *)
rateLimiting == [maxRequests |-> 2, window |-> TickStep]

(* Map.prototype.set *)
mapSet(map, key, value) ==
  [k \in DOMAIN map \cup {key} |-> IF k = key THEN value ELSE map[k]]

(* Map.prototype.delete for each of the keys *)
mapDelete(map, keys) == [k \in DOMAIN map \ keys |-> map[k]]

(* checkRateLimit refusing only when the count is over the limit *)
checkRateLimitOverLimit(map, userId, commandName, limit, window, clock) ==
  LET effectiveLimit == IF limit # 0 THEN limit ELSE rateLimiting.maxRequests
      effectiveWindow == IF window # 0 THEN window ELSE rateLimiting.window
      key == userId \o ":" \o commandName
      opened == [count |-> 1, resetTime |-> clock + effectiveWindow]
  IN IF key \notin DOMAIN map
     THEN [map |-> mapSet(map, key, opened), result |-> TRUE]
     ELSE IF clock > map[key].resetTime
     THEN [map |-> mapSet(map, key, opened), result |-> TRUE]
     ELSE IF map[key].count > effectiveLimit
     THEN [map |-> map, result |-> FALSE]
     ELSE [map |-> mapSet(map, key, [map[key] EXCEPT !.count = @ + 1]), result |-> TRUE]

(* limit and window 0 stand for null: both are falsy *)
checkRateLimit(map, userId, commandName, limit, window, clock) ==
  LET effectiveLimit == IF limit # 0 THEN limit ELSE rateLimiting.maxRequests
      effectiveWindow == IF window # 0 THEN window ELSE rateLimiting.window
      key == userId \o ":" \o commandName
      opened == [count |-> 1, resetTime |-> clock + effectiveWindow]
  IN IF key \notin DOMAIN map
     THEN [map |-> mapSet(map, key, opened), result |-> TRUE]
     ELSE IF clock > map[key].resetTime
     THEN [map |-> mapSet(map, key, opened), result |-> TRUE]
     ELSE IF map[key].count >= effectiveLimit
     THEN [map |-> map, result |-> FALSE]
     ELSE [map |-> mapSet(map, key, [map[key] EXCEPT !.count = @ + 1]), result |-> TRUE]

cleanupExpiredLimits(map, clock) ==
  mapDelete(map, {key \in DOMAIN map : clock > map[key].resetTime})

(* BaseCommand.isRateLimited: checkRateLimit(userId, commandName) with the   *)
(* configured limit and window.  rateGranted counts, per key, the calls that *)
(* returned true since the key's window was opened.                          *)
IsRateLimited(userId, commandName) ==
  LET key == userId \o ":" \o commandName
      checked == checkRateLimit(rateLimiter, userId, commandName, 0, 0, now)
      inWindow == rateGranted[key].n > 0
                  /\ now <= rateGranted[key].opened + rateLimiting.window
  IN /\ rateLimiter' = checked.map
     /\ query' = [op |-> "isRateLimited", userId |-> userId,
                  commandName |-> commandName, key |-> key]
     /\ reply' = [limited |-> ~checked.result]
     /\ rateGranted' =
          IF ~checked.result THEN rateGranted
          ELSE [rateGranted EXCEPT ![key] =
                  IF inWindow THEN [@ EXCEPT !.n = @ + 1]
                  ELSE [opened |-> now, n |-> 1]]
     /\ UNCHANGED <<mainVars, availability, lastAvailId, busyReq, profiles>>

(* setInterval(cleanupExpiredLimits, 60000) *)
CleanupExpiredLimits ==
  /\ rateLimiter' = cleanupExpiredLimits(rateLimiter, now)
  /\ UNCHANGED <<mainVars, availability, lastAvailId, busyReq, profiles, rateGranted,
                 queryVars>>

NextRate ==
  \/ Tick
  \/ \E u \in Users, c \in CommandNames : IsRateLimited(u, c)
  \/ CleanupExpiredLimits

SpecRate == Init /\ [][NextRate]_vars

----------------------------------------------------------------------------
(* Properties of the notification jobs and of the meeting life cycle *)

Terminal == {"sent", "failed", "cancelled"}

(* the rows the step inserted *)
Created == {n \in notifications' : n.id > lastNotifId}

(* the lead time an offset token stands for: <integer><unit>, unit h, m or d *)
OffsetDuration(token) ==
  LET amount == parseInt(SubSeq(token, 1, Len(token) - 1)).v
      unit == token[Len(token)]
  IN CASE unit = "h" -> 60 * amount
       [] unit = "m" -> amount
       [] unit = "d" -> 24 * 60 * amount

(* C1: a notification job whose status is 'cancelled' is never set to 'sent', *)
(* whatever the interleaving of sweeps and cancellations.                     *)
C1_CancelledNeverSent ==
  [][\A n \in notifications : \A n2 \in notifications' :
       (n.id = n2.id /\ n.status = "cancelled") => n2.status # "sent"]_vars

(* C2: delivery of a notification job is attempted at most once, also when    *)
(* two sweeps overlap.                                                        *)
C2_AttemptedAtMostOnce ==
  \A i \in 1..MaxNotifs : attempts[i] <= 1

(* C3: sent, failed and cancelled are terminal: no step changes the status of *)
(* a job that has one of them.                                                *)
C3_TerminalStatus ==
  [][\A n \in notifications : \A n2 \in notifications' :
       (n.id = n2.id /\ n.status \in Terminal) => n2.status = n.status]_vars

(* C4: when cancelMeeting returns the meeting is 'cancelled' and none of its  *)
(* jobs is pending, and no sweep that takes its due set after that return     *)
(* delivers a reminder for the meeting.                                       *)
C4_CancelStopsReminders ==
  /\ [][\A m \in cancelReturned' \ cancelReturned :
          /\ meetings'[m].status = "cancelled"
          /\ \A n \in notifications' : n.meeting_id = m => n.status # "pending"]_vars
  /\ [](lateReminder = {})

(* C5: a meeting's status moves only proposed -> confirmed, proposed ->       *)
(* cancelled and confirmed -> cancelled.                                      *)
C5_StatusTransitions ==
  [][\A m \in MeetingIds :
       /\ meetings[m].status = "cancelled" => meetings'[m].status = "cancelled"
       /\ meetings[m].status = "confirmed" =>
            meetings'[m].status \in {"confirmed", "cancelled"}]_vars

(* C6: every job is created with fire time = meeting start - offset, whatever *)
(* the participant's time zone.                                               *)
C6_FireTimeIsStartMinusOffset ==
  [][\A n \in Created :
       n.notification_time =
         meetings'[n.meeting_id].proposed_datetime - OffsetDuration(n.notification_type)]_vars

(* C7: a job is created only for an offset whose fire time, meeting start -   *)
(* offset, is strictly later than the time of creation.                       *)
C7_FireTimeInFuture ==
  [][\A n \in Created :
       meetings'[n.meeting_id].proposed_datetime - OffsetDuration(n.notification_type) > now]_vars

----------------------------------------------------------------------------
(* Properties of the availability store and of the search *)

(* the half-open overlap test of [s1, e1) and [s2, e2) *)
Overlap(s1, e1, s2, e2) == s1 < e2 /\ s2 < e1

(* C8: after any interleaving of set-busy requests no two stored busy         *)
(* intervals of one user overlap (half-open), and no step stores an interval  *)
(* that overlaps a busy interval the user already has.                        *)
C8_NoOverlappingBusy ==
  /\ [](\A a \in availability : \A b \in availability :
          (/\ a.id # b.id
           /\ a.user_id = b.user_id
           /\ a.availability_type = "busy"
           /\ b.availability_type = "busy")
          => ~Overlap(a.start_datetime, a.end_datetime, b.start_datetime, b.end_datetime))
  /\ [][\A n \in availability' \ availability : \A b \in availability :
          (b.user_id = n.user_id /\ b.availability_type = "busy")
          => ~Overlap(n.start_datetime, n.end_datetime, b.start_datetime, b.end_datetime)]_vars

(* C9: for a candidate [start, end) with start < end, findConflicts returns   *)
(* exactly the user's busy rows (other than the excluded id) with             *)
(* existing.start < candidate.end and candidate.start < existing.end, each    *)
(* once: a row that only touches the candidate is left out, a partially       *)
(* overlapping one is returned.                                               *)
C9_FindConflictsHalfOpen ==
  query.op = "findConflicts" =>
    /\ Range(reply) =
         {ua \in availability :
            /\ ua.user_id = query.userId
            /\ ua.availability_type = "busy"
            /\ Overlap(ua.start_datetime, ua.end_datetime,
                       query.startDateTime, query.endDateTime)
            /\ query.excludeId # 0 => ua.id # query.excludeId}
    /\ Cardinality(Range(reply)) = Len(reply)

(* candidate 10:30-11:30 against busy 10:00-11:00 (returned) and busy         *)
(* 11:30-12:00 (touching, left out)                                           *)
C9_Witness ==
  /\ query.op = "findConflicts"
  /\ query.excludeId = 0
  /\ query.startDateTime = 10 * 60 + 30
  /\ query.endDateTime = 11 * 60 + 30
  /\ \E a \in availability : \E b \in availability :
       /\ a.user_id = query.userId /\ a.availability_type = "busy"
       /\ a.start_datetime = 10 * 60 /\ a.end_datetime = 11 * 60
       /\ b.user_id = query.userId /\ b.availability_type = "busy"
       /\ b.start_datetime = query.endDateTime
       /\ reply = <<a>>

(* the user is in working hours at the candidate and has no busy row that     *)
(* overlaps [candidate, candidate + duration)                                 *)
CountedAvailable(userId, candidate, duration) ==
  /\ isWithinWorkingHours(candidate, users(userId).timezone,
                          [start |-> users(userId).working_hours_start,
                           end |-> users(userId).working_hours_end])
  /\ ~\E ua \in availability :
        /\ ua.user_id = userId
        /\ ua.availability_type = "busy"
        /\ Overlap(ua.start_datetime, ua.end_datetime, candidate, candidate + duration)

(* C10: every suggestion of findOptimalMeetingTime is a candidate of the 9-17 *)
(* weekday grid whose availableUsers is the number of users in working hours  *)
(* without an overlapping busy interval, is at least 1, and whose score is    *)
(* that number / the number of users; no users, or every user busy over the   *)
(* whole window, gives the empty list.                                        *)
C10_SuggestionsCountAvailableUsers ==
  query.op = "findOptimalMeetingTime" =>
    /\ \A i \in 1..Len(reply) :
         LET s == reply[i]
             count == Cardinality({j \in 1..Len(query.userIds) :
                                     CountedAvailable(query.userIds[j], s.time, query.duration)})
         IN /\ getDay(s.time) \in 1..5
            /\ s.time % 60 = 0
            /\ getHours(s.time) \in 9..17
            /\ count >= 1
            /\ s.availableUsers = count
            /\ s.score = [num |-> count, den |-> Len(query.userIds)]
    /\ query.userIds = <<>> => reply = <<>>
    /\ (\A j \in 1..Len(query.userIds) :
          \E ua \in availability :
            /\ ua.user_id = query.userIds[j]
            /\ ua.availability_type = "busy"
            /\ ua.start_datetime <= query.startDate
            /\ ua.end_datetime >= query.endDate)
       => reply = <<>>

----------------------------------------------------------------------------
(* Properties of the recurring series *)

(* the start times of the meetings the last /schedule-recurring created *)
ReplyDates == [i \in 1..Len(reply) |-> reply[i].proposed_datetime]

Min(a, b) == IF a < b THEN a ELSE b

(* C11: in a monthly series each occurrence after the first is in the         *)
(* calendar month that follows its predecessor's, at the same time of day and *)
(* on the same day of month, clamped to the last day of that month; no month  *)
(* is skipped.  From 2024-01-31T09:00Z with two occurrences the second is     *)
(* 2024-02-29T09:00Z.                                                         *)
C11_MonthlyClamped ==
  (query.op = "createRecurringMeetings" /\ query.input.pattern = "monthly") =>
    \A i \in 1..(Len(reply) - 1) :
      LET prev == ReplyDates[i]
          next == ReplyDates[i + 1]
          y == getFullYear(prev) + ((getMonth(prev) + 1) \div 12)
          m == (getMonth(prev) + 1) % 12
      IN /\ getFullYear(next) = y
         /\ getMonth(next) = m
         /\ getDate(next) = Min(getDate(prev), daysInMonth(y, m))
         /\ next % Day = prev % Day

(* the step of a pattern in days *)
StepDays(p) == CASE p = "daily" -> 1 [] p = "weekly" -> 7 [] p = "biweekly" -> 14

----------------------------------------------------------------------------
(* Further properties of the notification jobs *)

(* C13: a reschedule (updateMeeting with a new time) leaves every job of the  *)
(* meeting that was pending as a row with status 'cancelled', and leaves the  *)
(* jobs of other meetings as they were.                                       *)
C13_RescheduleKeepsCancelledRows ==
  [][\A m \in 1..MaxMeetings, u \in Users, t \in RescheduleTimes :
       UpdateMeeting(m, u, [proposed_datetime |-> t]) =>
         /\ \A n \in notifications :
              (n.meeting_id = m /\ n.status = "pending")
              => [n EXCEPT !.status = "cancelled"] \in notifications'
         /\ \A n \in notifications : n.meeting_id # m => n \in notifications']_vars

(* C14: a job whose delivery failed is not attempted again: no sweep that    *)
(* takes its due set after the failure calls user.send for that job.         *)
C14_FailedNeverRetried ==
  [][\A s \in Sweeps, o \in {"sent", "failed"} :
       SweepSend(s, o) => Head(sweepBatch[s]).nid \notin failedSeen[s]]_vars

(* C15: at most one dispatcher sweep is in flight at any time.                *)
C15_OneSweepInFlight ==
  Cardinality({s \in Sweeps : sweepPc[s] = "running"}) <= 1

(* the job with this id is a row with status 'pending' *)
IsPending(i) == \E n \in notifications : n.id = i /\ n.status = "pending"

(* ... and its fire time has come *)
IsDue(i) ==
  \E n \in notifications : n.id = i /\ n.status = "pending" /\ n.notification_time <= now

(* C16: with the sweep running again and again, every job that is pending    *)
(* and due eventually is no longer pending.                                  *)
C16_DueJobLeavesPending ==
  \A i \in 1..MaxNotifs : IsDue(i) ~> ~IsPending(i)

(* <integer><unit> with unit h, m or d *)
WellFormedToken(token) ==
  /\ Len(token) >= 2
  /\ token[Len(token)] \in {"h", "m", "d"}
  /\ \A k \in 1..(Len(token) - 1) : IsDigit(token[k])

(* C17: scheduling creates no job for an offset token whose unit is not h, m  *)
(* or d or whose amount is not an integer (such a token is to be rejected).   *)
C17_NoJobForInvalidToken ==
  [][\A n \in Created : WellFormedToken(n.notification_type)]_vars

(* the instant a created_at text stands for *)
InstantOf(ts) == ts.date * Day + ts.time

(* C18: the retention sweep removes no pending job, and removes only jobs    *)
(* created more than 30 days before it runs.                                 *)
C18_CleanupKeepsPendingAndRecent ==
  [][\A n \in notifications \ notifications' :
       /\ n.status # "pending"
       /\ InstantOf(n.created_at) < now - 30 * Day]_vars

(* C19: cancelNotifications(meetingId), as cancelMeeting calls it, sets each  *)
(* pending job of the meeting to 'cancelled' and changes nothing else: the    *)
(* meeting's sent and failed jobs and the jobs of other meetings stay as they *)
(* are and no row is deleted.                                                 *)
C19_CancelOnlyPendingOfMeeting ==
  [][\A m \in MeetingIds :
       CancelMeetingReturn(m) =>
         /\ \A n \in notifications :
              IF n.meeting_id = m /\ n.status = "pending"
              THEN [n EXCEPT !.status = "cancelled"] \in notifications'
              ELSE n \in notifications'
         /\ {n.id : n \in notifications'} = {n.id : n \in notifications}
         /\ Cardinality(notifications') = Cardinality(notifications)]_vars

(* cancelMeeting has returned for meeting 1: its pending job 1 is cancelled, *)
(* its sent job 2 is still sent, job 3 of meeting 2 is still pending         *)
C19_Witness ==
  /\ 1 \in cancelReturned
  /\ \E a \in notifications : a.id = 1 /\ a.meeting_id = 1 /\ a.status = "cancelled"
  /\ \E b \in notifications : b.id = 2 /\ b.meeting_id = 1 /\ b.status = "sent"
  /\ \E c \in notifications : c.id = 3 /\ c.meeting_id = 2 /\ c.status = "pending"

(* meetingData the proposal must be refused for: the title missing or blank, *)
(* the time missing or not in the future, the timezone missing, or a         *)
(* duration outside 15..480 minutes                                          *)
InvalidProposal(meetingData, clock) ==
  \/ ~meetingData.title.given
  \/ \A k \in 1..Len(meetingData.title.v) : meetingData.title.v[k] = " "
  \/ ~meetingData.proposed_datetime.given
  \/ meetingData.proposed_datetime.v <= clock
  \/ ~meetingData.timezone.given
  \/ /\ meetingData.duration_minutes.given
     /\ meetingData.duration_minutes.v \notin 15..480

(* C20: proposeMeeting with such meetingData fails with a validation error   *)
(* and has no effect: no meeting is created, no notification is scheduled    *)
(* and no points are awarded.                                                *)
C20_InvalidProposalHasNoEffect ==
  [][\A meetingData \in MeetingInputs :
       (ProposeMeetingRequest(meetingData) /\ InvalidProposal(meetingData, now)) =>
         /\ reply'.error = "ValidationError"
         /\ reply'.points = 0
         /\ meetings' = meetings
         /\ notifications' = notifications]_vars

----------------------------------------------------------------------------
(* Properties of the calls on the meeting service *)

(* the jobs of one meeting *)
JobsOf(rows, meetingId) == {n \in rows : n.meeting_id = meetingId}

(* C21: updateMeeting, confirmMeeting and cancelMeeting called by a user who *)
(* is not the meeting's proposer fail with an error, leave the meeting row   *)
(* and the meeting's notification jobs unchanged and notify no participant.  *)
C21_OnlyProposerChangesMeeting ==
  [][\A m \in MeetingIds, u \in Users :
       (/\ u # meetings[m].proposer_id
        /\ \/ \E d \in UpdateInputs : UpdateMeetingCall(m, u, d)
           \/ ConfirmMeetingCall(m, u)
           \/ CancelMeetingCall(m, u)) =>
         /\ reply'.error # "none"
         /\ reply'.notified = {}
         /\ meetings'[m] = meetings[m]
         /\ JobsOf(notifications', m) = JobsOf(notifications, m)]_vars

(* a call by the other user was refused although the meeting had responses *)
(* and pending jobs                                                          *)
C21_Witness ==
  /\ query.op \in {"updateMeeting", "confirmMeeting", "cancelMeeting"}
  /\ query.meetingId \in MeetingIds
  /\ query.userId # meetings[query.meetingId].proposer_id
  /\ reply.error # "none"
  /\ \E n \in notifications : n.meeting_id = query.meetingId /\ n.status = "pending"
  /\ \E i \in 1..Len(responses) : responses[i].meeting_id = query.meetingId

(* C22: recording a response to a cancelled meeting, by the service's        *)
(* recordResponse or by a response button, is rejected with 'Cannot respond  *)
(* to a cancelled meeting', stores nothing and awards no points.             *)
C22_NoResponseToCancelledMeeting ==
  [][\A m \in MeetingIds, u \in Users :
       (/\ meetings[m].status = "cancelled"
        /\ \/ \E r \in Responses : RecordResponseCall(m, u, r)
           \/ \E r \in {"available", "maybe"} : HandleMeetingButton(m, u, r)
           \/ HandleMeetingResponseModal(m, u)) =>
         /\ reply'.error = "Cannot respond to a cancelled meeting"
         /\ reply'.points = 0
         /\ responses' = responses]_vars

(* some participant's response to the meeting, as it stands, is 'available' *)
HasAvailable(m) ==
  \E i \in 1..Len(responses) :
    responses[i].meeting_id = m /\ responses[i].response = "available"

(* C23: confirmMeeting succeeds only if at least one participant's current   *)
(* response is 'available'; 'maybe' and 'unavailable' do not count.          *)
(* Otherwise it fails, for the proposer with 'Cannot confirm meeting with no *)
(* available participants', and the meeting's status is unchanged.           *)
C23_ConfirmNeedsAvailable ==
  [][\A m \in MeetingIds, u \in Users :
       ConfirmMeetingCall(m, u) =>
         /\ reply'.error = "none" => HasAvailable(m)
         /\ ~HasAvailable(m) =>
              /\ reply'.error # "none"
              /\ u = meetings[m].proposer_id =>
                   reply'.error = "Cannot confirm meeting with no available participants"
              /\ meetings'[m].status = meetings[m].status]_vars

(* the proposer's confirmMeeting was refused on a meeting whose responses are *)
(* 'maybe' and 'unavailable' only                                             *)
C23_Witness ==
  /\ query.op = "confirmMeeting"
  /\ query.meetingId \in MeetingIds
  /\ query.userId = meetings[query.meetingId].proposer_id
  /\ reply.error = "Cannot confirm meeting with no available participants"
  /\ meetings[query.meetingId].status = "proposed"
  /\ \E i \in 1..Len(responses) : responses[i].response = "maybe"
  /\ \E i \in 1..Len(responses) : responses[i].response = "unavailable"

----------------------------------------------------------------------------
(* Properties of the search without the working-hours restriction *)

(* the candidates of every day of the window, weekend days included *)
AllDayCandidates(startDate, endDate) ==
  {setHours(startDate + k * Day, hour) :
     k \in {j \in 0..7 : startDate + j * Day < endDate}, hour \in 9..17}

(* the users without a busy interval that overlaps the candidate *)
FreeUsers(userIds, candidate, duration) ==
  {j \in 1..Len(userIds) :
     ~\E ua \in availability :
        /\ ua.user_id = userIds[j]
        /\ ua.availability_type = "busy"
        /\ Overlap(ua.start_datetime, ua.end_datetime, candidate, candidate + duration)}

(* C24: with workingHoursOnly = false the Monday-Friday restriction and the  *)
(* working-hours requirement do not apply: the candidates of weekend days    *)
(* are sampled too, and a user counts as available at a candidate whenever   *)
(* none of their busy intervals overlaps it.                                 *)
C24_FlagOffLiftsRestrictions ==
  (query.op = "findOptimalMeetingTime" /\ query.workingHoursOnly = FALSE) =>
    /\ \A i \in 1..Len(reply) :
         reply[i].availableUsers =
           Cardinality(FreeUsers(query.userIds, reply[i].time, query.duration))
    /\ Len(reply) < TopN =>
         \A c \in AllDayCandidates(query.startDate, query.endDate) :
           FreeUsers(query.userIds, c, query.duration) # {} =>
             \E i \in 1..Len(reply) : reply[i].time = c

----------------------------------------------------------------------------
(* Properties of the dispatcher's sweep *)

(* C25: a delivery failure for one job of a sweep marks that job 'failed',   *)
(* changes no other job and does not end the sweep: the rest of the due set  *)
(* stays to be attempted by the same sweep.                                  *)
C25_FailureMarksOnlyThatJob ==
  [][\A s \in Sweeps :
       SweepSend(s, "failed") =>
         LET job == Head(sweepBatch[s])
         IN /\ notifications' = {IF n.id = job.nid THEN [n EXCEPT !.status = "failed"]
                                 ELSE n : n \in notifications}
            /\ sweepBatch'[s] = Tail(sweepBatch[s])
            /\ Tail(sweepBatch[s]) # <<>> => sweepPc'[s] = "running"]_vars

(* C29: the status of every notification job is one of pending, sent,        *)
(* failed, cancelled in every reachable state.                               *)
C29_JobStatusDomain ==
  \A n \in notifications : n.status \in {"pending", "sent", "failed", "cancelled"}

(* the pending jobs whose fire time has come *)
DueJobs == {n \in notifications : n.status = "pending" /\ n.notification_time <= now}

JobOf(row) == CHOOSE n \in notifications : n.id = row.nid

(* C30: the due set a sweep selects holds only jobs that are pending with a  *)
(* fire time <= now, at most 50 of them, each once, in ascending order of    *)
(* fire time, and leaves out no due pending job that is earlier than one it  *)
(* holds; the sweep attempts delivery for the jobs of its due set only.      *)
C30_SweepTakesEarliestDueJobs ==
  [][\A s \in Sweeps :
       /\ SweepSelect(s) =>
            LET batch == sweepBatch'[s]
            IN /\ Len(batch) <= 50
               /\ \A i \in 1..Len(batch) : \E n \in DueJobs : n.id = batch[i].nid
               /\ \A i \in 1..Len(batch) : \A j \in 1..Len(batch) :
                    /\ i < j => JobOf(batch[i]).notification_time
                                  <= JobOf(batch[j]).notification_time
                    /\ i # j => batch[i].nid # batch[j].nid
               /\ \A n \in DueJobs :
                    (\A i \in 1..Len(batch) : batch[i].nid # n.id) =>
                      \A i \in 1..Len(batch) :
                        JobOf(batch[i]).notification_time <= n.notification_time
       /\ \A o \in Outcomes :
            SweepSend(s, o) =>
              \A i \in DOMAIN attempts :
                attempts'[i] # attempts[i] => i = Head(sweepBatch[s]).nid]_vars

(* a sweep holds a full due set of 50 while a further due pending job waits *)
C30_Witness ==
  \E s \in Sweeps :
    /\ sweepPc[s] = "running"
    /\ Len(sweepBatch[s]) = BatchLimit
    /\ \E n \in DueJobs : \A i \in 1..Len(sweepBatch[s]) : sweepBatch[s][i].nid # n.id

----------------------------------------------------------------------------
(* Properties of TimezoneUtils *)

(* the hour on the wall clock of the zone a text names *)
WallClockHour(instant, zone) ==
  LET east == CASE zone \in {"UTC", ""} -> 0
                [] zone \in {"helsinki", "Europe/Helsinki"} -> 2
                [] zone = "EST" -> 0 - 5
  IN (((instant + east * 60) % Day) \div 60)

NamesAZone(zone) == zone \in {"UTC", "", "helsinki", "Europe/Helsinki", "EST"}

(* C27: isWithinWorkingHours is true iff the local hour of the instant in    *)
(* the zone satisfies start <= hour < end, and it is false, not an error,    *)
(* when the zone cannot be resolved or the instant is invalid.               *)
C27_WorkingHoursHalfOpen ==
  query.op = "isWithinWorkingHours" =>
    /\ ~reply.threw
    /\ IF NamesAZone(query.timezone) /\ query.dateTime # InvalidDate
       THEN reply.v = (/\ query.workingHours.start <= WallClockHour(query.dateTime, query.timezone)
                       /\ WallClockHour(query.dateTime, query.timezone) < query.workingHours.end)
       ELSE reply.v = FALSE

(* an instant whose local hour is the end hour, in a zone east of UTC, was   *)
(* answered with false                                                       *)
C27_Witness ==
  /\ query.op = "isWithinWorkingHours"
  /\ query.timezone = "helsinki"
  /\ query.dateTime # InvalidDate
  /\ WallClockHour(query.dateTime, query.timezone) = query.workingHours.end
  /\ reply.v = FALSE

(* C28: normalizeTimezone is idempotent on every input it accepts: the value *)
(* it returns is accepted too and is mapped to itself.                       *)
C28_NormalizeIdempotent ==
  (query.op = "normalizeTimezone" /\ ~reply.threw) =>
    /\ ~normalizeTimezone(reply.v).threw
    /\ normalizeTimezone(reply.v).v = reply.v

----------------------------------------------------------------------------
(* Properties of the stored profiles *)

WorkingHoursOk(start, end) ==
  /\ start \in 0..23
  /\ end \in 0..23
  /\ start < end

(* the hours a request asks for: an hour that is not given keeps its default *)
RequestedStart(inputData) ==
  IF inputData.start_hour.given THEN inputData.start_hour.v ELSE 9
RequestedEnd(inputData) ==
  IF inputData.end_hour.given THEN inputData.end_hour.v ELSE 17

(* C26: every stored profile has working hours with                          *)
(* 0 <= working_hours_start < working_hours_end <= 23, and a                 *)
(* set-availability request whose hours would violate this is rejected and   *)
(* leaves the stored profile unchanged.                                      *)
C26_WorkingHoursInvariant ==
  /\ [](\A u \in Users :
          WorkingHoursOk(profiles[u].working_hours_start, profiles[u].working_hours_end))
  /\ [][\A inputData \in AvailabilityInputs :
          (/\ SetAvailability(Proposer, inputData)
           /\ ~WorkingHoursOk(RequestedStart(inputData), RequestedEnd(inputData))) =>
            /\ reply'.error # "none"
            /\ profiles' = profiles]_vars

----------------------------------------------------------------------------
(* Properties of the notification service called on its own *)

(* C31: rescheduleNotifications for a meeting id that does not exist reports *)
(* a failure to its caller and leaves the notification jobs unchanged: no    *)
(* step of such a call changes the jobs, and the call does not return as if  *)
(* it had succeeded.                                                         *)
C31_RescheduleOfMissingMeetingFails ==
  [][\A r \in Requests :
       /\ \A m \in CallMeetingIds, t \in RescheduleTimes :
            (RescheduleDelete(r, m, t) /\ m \notin MeetingIds) =>
              notifications' = notifications
       /\ (RescheduleReturn(r) /\ rescheduleReq[r].meetingId \notin MeetingIds) =>
              /\ notifications' = notifications
              /\ reply'.error # "none"]_vars

(* C38: for every meeting, user and offset token at most one job is pending, *)
(* whatever the order in which the steps of scheduleNotifications and        *)
(* rescheduleNotifications calls are taken.                                  *)
C38_OnePendingJobPerOffset ==
  \A a \in notifications, b \in notifications :
    (/\ a.status = "pending"
     /\ b.status = "pending"
     /\ a.meeting_id = b.meeting_id
     /\ a.user_id = b.user_id
     /\ a.notification_type = b.notification_type) => a = b

----------------------------------------------------------------------------
(* Properties of the ranking of the suggestions *)

(* a ranks before b: higher score, then more available users, then earlier *)
RanksBefore(a, b) ==
  \/ a.score.num * b.score.den > b.score.num * a.score.den
  \/ /\ a.score.num * b.score.den = b.score.num * a.score.den
     /\ \/ a.availableUsers > b.availableUsers
        \/ a.availableUsers = b.availableUsers /\ a.time < b.time

(* the candidates the search of the last query has found, before ranking *)
FoundCandidates ==
  collectSuggestions(
    findOptimalMeetingTimes(availability, query.userIds, query.startDate, query.endDate,
                            query.workingHoursOnly # FALSE),
    query.userIds, query.duration, query.startDate, query.endDate)

(* C32: the list findOptimalMeetingTime returns is ordered by score          *)
(* descending, then availableUsers descending, then time ascending; it holds *)
(* the first TopN of the candidates found, so that no candidate left out     *)
(* ranks before a returned one.                                              *)
C32_RankedAndTruncated ==
  query.op = "findOptimalMeetingTime" =>
    /\ \A i \in 1..Len(reply) : \A j \in 1..Len(reply) :
         i < j => RanksBefore(reply[i], reply[j])
    /\ Len(reply) = Min(TopN, Len(FoundCandidates))
    /\ Range(reply) \subseteq Range(FoundCandidates)
    /\ \A c \in Range(FoundCandidates) \ Range(reply) :
         \A i \in 1..Len(reply) : ~RanksBefore(c, reply[i])

(* more than TopN candidates were found, the returned list has entries of   *)
(* different scores and entries tied on score, and a candidate was left out *)
C32_Witness ==
  /\ query.op = "findOptimalMeetingTime"
  /\ Len(FoundCandidates) > TopN
  /\ Len(reply) = TopN
  /\ \E i \in 1..Len(reply) : \E j \in 1..Len(reply) :
       reply[i].availableUsers > reply[j].availableUsers
  /\ \E i \in 1..Len(reply) : \E j \in 1..Len(reply) :
       i # j /\ reply[i].availableUsers = reply[j].availableUsers
  /\ Range(FoundCandidates) \ Range(reply) # {}

(* C33: in the quick suggestions of the team view a user is counted busy for *)
(* a candidate only if a busy interval of the user overlaps                  *)
(* [candidate, candidate + 60) half-open: available_users of every returned  *)
(* suggestion is the number of listed users without such an interval.        *)
C33_TeamViewCountsHalfOpen ==
  query.op = "suggestOptimalMeetingTimes" =>
    \A i \in 1..Len(reply) :
      LET s == reply[i]
          free == {j \in 1..Len(query.userIds) :
                     ~\E ua \in availability :
                        /\ ua.user_id = query.userIds[j]
                        /\ ua.availability_type = "busy"
                        /\ Overlap(ua.start_datetime, ua.end_datetime,
                                   s.datetime, s.datetime + 60)}
      IN s.available_users = Cardinality(free)

----------------------------------------------------------------------------
(* Properties of the stored meetings *)

(* C34: every meeting in the store has duration_minutes within 15..480 *)
C34_StoredDurationInRange ==
  \A m \in MeetingIds : meetings[m].duration_minutes \in 15..480

(* C35: the generation of a recurring series ends with finitely many       *)
(* occurrences: without an end date and without a maximum it makes at most *)
(* 10, none later than 365 days after the first; with a maximum it makes   *)
(* at most that many.                                                      *)
C35_SeriesIsCapped ==
  query.op = "createRecurringMeetings" =>
    /\ Len(reply) <= 52
    /\ (query.input.max_occurrences = 0 /\ query.input.parsed_end_date = 0) =>
         /\ Len(reply) <= 10
         /\ \A i \in 1..Len(reply) :
              reply[i].proposed_datetime <= query.input.parsed_datetime + 365 * Day
    /\ query.input.max_occurrences # 0 => Len(reply) <= query.input.max_occurrences

(* a daily series without end date and maximum stopped at the cap, and its *)
(* rows are in the store                                                   *)
C35_Witness ==
  /\ query.op = "createRecurringMeetings"
  /\ query.input.pattern = "daily"
  /\ query.input.max_occurrences = 0
  /\ query.input.parsed_end_date = 0
  /\ Len(reply) = 10
  /\ Len(meetings) = 10

----------------------------------------------------------------------------
(* Properties of the jobs of a cancelled meeting, under the service's calls *)

(* C36: no notification job is pending for a meeting whose status is *)
(* 'cancelled'.                                                       *)
C36_NoPendingJobOfCancelledMeeting ==
  \A n \in notifications :
    (n.status = "pending" /\ n.meeting_id \in MeetingIds) =>
      meetings[n.meeting_id].status # "cancelled"

----------------------------------------------------------------------------
(* Properties of the reminders of the users who respond *)

(* the user has an 'available' or 'maybe' response to the meeting *)
IsInterested(m, u) ==
  \E i \in 1..Len(responses) :
    /\ responses[i].meeting_id = m
    /\ responses[i].user_id = u
    /\ responses[i].response \in {"available", "maybe"}

(* the fire time of the user's k-th offset for the meeting at its proposed time *)
FireTime(m, u, k) ==
  convertToUserTimezone(meetings[m].proposed_datetime, users(u).timezone)
    - OffsetDuration(users(u).notification_preferences[k])

(* the meeting is as it was proposed: not cancelled and not moved *)
AsProposed(m) ==
  /\ m \in MeetingIds
  /\ meetings[m].status # "cancelled"
  /\ meetings[m].proposed_datetime \in ProposeTimes

HasJob(m, u, k) ==
  \E n \in notifications :
    /\ n.meeting_id = m
    /\ n.user_id = u
    /\ n.notification_type = users(u).notification_preferences[k]

(* an offset of u1 and one of u2 whose fire time is after the first clock value *)
ReminderCases == {<<"u1", 2>>, <<"u2", 2>>}

(* C37: for a proposed meeting that is neither cancelled nor rescheduled, a  *)
(* user with an 'available' or 'maybe' response, and an offset of that user  *)
(* whose fire time is still ahead, a notification job for the user and the   *)
(* offset eventually exists (or the meeting is cancelled or rescheduled).    *)
C37_ResponderGetsReminderJobs ==
  \A c \in ReminderCases :
    (/\ AsProposed(1)
     /\ IsInterested(1, c[1])
     /\ FireTime(1, c[1], c[2]) > now)
    ~> (HasJob(1, c[1], c[2]) \/ ~AsProposed(1))

----------------------------------------------------------------------------
(* Properties of the hours a set-availability request stores *)

(* the request is refused for nothing but its hours *)
RestOfRequestValid(inputData) ==
  validateAvailabilitySettings(inputData).errors
    \subseteq {"start_hour", "end_hour", "working_hours"}

(* C39: a set-availability request with valid hours (0 <= start < end <= 23, *)
(* an omitted hour standing for its default 9 or 17) is accepted and stores  *)
(* exactly the start and the end hour the user supplied, start hour 0        *)
(* included.                                                                 *)
C39_SuppliedHoursAreStored ==
  [][\A inputData \in AvailabilityInputs :
       (/\ SetAvailability(Proposer, inputData)
        /\ RestOfRequestValid(inputData)
        /\ WorkingHoursOk(RequestedStart(inputData), RequestedEnd(inputData))) =>
         /\ reply'.error = "none"
         /\ profiles'[Proposer].working_hours_start = RequestedStart(inputData)
         /\ profiles'[Proposer].working_hours_end = RequestedEnd(inputData)]_vars

----------------------------------------------------------------------------
(* Properties of the rate limiter *)

(* the key's window is open and its limit is used up *)
LimitReached(key) ==
  /\ rateGranted[key].n >= rateLimiting.maxRequests
  /\ now <= rateGranted[key].opened + rateLimiting.window

(* C40: per key, at most `limit` calls return true within one window; once  *)
(* the limit is reached a further call in the window returns false and      *)
(* leaves the counter unchanged; the first call after the reset time opens  *)
(* a new window with count 1; a call for one key leaves the other keys'     *)
(* state as it is.                                                          *)
C40_RateLimitPerKey ==
  /\ [](\A key \in RateKeys : rateGranted[key].n <= rateLimiting.maxRequests)
  /\ [][\A u \in Users, c \in CommandNames :
          IsRateLimited(u, c) =>
            LET key == u \o ":" \o c
            IN /\ LimitReached(key) =>
                    (reply'.limited /\ rateLimiter' = rateLimiter)
               /\ (key \in DOMAIN rateLimiter /\ now > rateLimiter[key].resetTime) =>
                    /\ ~reply'.limited
                    /\ rateLimiter'[key] =
                         [count |-> 1, resetTime |-> now + rateLimiting.window]
               /\ \A other \in RateKeys \ {key} :
                    /\ other \in DOMAIN rateLimiter' <=> other \in DOMAIN rateLimiter
                    /\ other \in DOMAIN rateLimiter =>
                         rateLimiter'[other] = rateLimiter[other]]_vars

(* a call has just been refused for a key whose limit is used up, while     *)
(* another key's window is open with one request                            *)
C40_Witness ==
  /\ query.op = "isRateLimited"
  /\ reply.limited
  /\ LimitReached(query.key)
  /\ \E other \in DOMAIN rateLimiter \ {query.key} : rateLimiter[other].count = 1

====
